---- MODULE Spec2Model ----
(***************************************************************************)
(* A verification model of the PrimeAggregator arbitrage engine: the       *)
(* decider, the executor (executeCandidate), the scanner with its per-pair *)
(* circuit breaker, the rate limiters and the retry wrapper, the atomic    *)
(* transaction builder, the fee conversion, the quote cache, the vwap and  *)
(* bollinger trigger windows, the amount selection, main's scheduler, the  *)
(* offloaded decider's engine, the rotating logger, the tip, setup-wallet, *)
(* the circuit breaker, the token bucket under its clients' calls, the     *)
(* gating of the second quote provider per tick and per scan, its client.  *)
(*                                                                         *)
(* Each component has its own specification (SpecDecide, SpecExec, ...)    *)
(* over the module's variables; the variables of the components a          *)
(* specification does not exercise stay at their idle values.              *)
(***************************************************************************)
EXTENDS Integers, Sequences, FiniteSets, TLC

VARIABLES
    \* decider: position, arguments, decision; the engine subprocess, the
    \* queue of resolvers waiting for a reply line, the request lines the child
    \* has not answered yet, how the current request failed, decisions asked
    dPc, dArgs, dRes, dChild, dPending, dOwed, dFailure, dCalls,
    \* executor: parameters, candidate, position, build/sign/send operations in
    \* order, logged event types in order, result, simulation results,
    \* bundle outcome, confirmation outcome, Ultra execute responses
    xCfg, xBest, xPc, xNet, xLog, xRes, xSim, xBundle, xConfirm, xExec,
    \* scanner (one pair): parameters, position, clock (ms), the breaker's
    \* open-until per provider, expiry of the pair's fee-conversion cache entry,
    \* amount index, leg, number of candidates, the quote requests issued,
    \* how the last scan ended
    sCfg, sPc, sNow, sOpenUntil, sFeeExp, sIdx, sLeg, sCands, sReqs, sRes,
    \* rate limiter and retry wrapper: parameters, clock (ms), free clock steps
    \* taken, the limiter's fields, the id of the call the chain ends with,
    \* the scheduled calls in schedule order, the ids of the calls whose
    \* function has started (in start order), the wrapper's callers
    lCfg, lNow, lTicks, lLim, lChain, lJobs, lStarted, lCalls,
    \* atomic builder: the parameters and leg responses of the last build, what it
    \* built
    bIn, bOut,
    \* fee conversion of one pair: parameters, clock (ms), the pair's entry of
    \* feeConversionCache, the fee the last candidate's decision was given
    fCfg, fNow, fCache, fUsed,
    \* quote cache: ttlMs, clock, the cache (key -> entry), the upstream quote
    \* requests in issue order, the callers of the cached quoteExactIn
    qTtl, qNow, qCache, qReqs, qCalls,
    \* trigger window (vwap / bollinger): strategy parameters, clock, phase,
    \* EMA and EWM variance, samples, arm state, result, the stop flag of main,
    \* and what the last tick saw
    tCfg, tNow, tStart, tPhase, tEma, tVar, tSamples, tArmed, tPeak, tDecline, tRes, tStop, tRun, tSignals, tLast,
    \* amount selection of the trigger window: pair and mode, the window's
    \* amountCursor, main's per-pair scan state, windows and ticks so far,
    \* the start a persisting cursor would have, and the last selection
    rCfg, rCursor, rState, rWindow, rTicks, rExpect, rLast,
    \* scheduler of main: configuration, clock, stop flag, position of the
    \* loop, wake-up time of its sleep, the cooldown / next-scan / scan-state
    \* maps, the queue and workers of forEachLimit, the error counters
    mCfg, mNow, mStop, mPc, mWake, mCooldowns, mNextScanAt, mStates, mQueue, mWorkers, mErrors,
    \* logger: rotation options, the files path (0) and path.i, knownSize,
    \* the chain of writes not yet run, every write issued with its outcome
    gCfg, gFiles, gKnown, gChain, gIssued,
    \* tip of a candidate: the parameters of computeJitoTipLamports, its result
    jCfg, jTip,
    \* setup-wallet: the mints of the configured pairs, the token accounts of the
    \* wallet before and now, the instruction groups still to send, the
    \* transactions sent, the signatures collected, position
    wMints, wBefore, wAccounts, wGroups, wSent, wSigs, wPc,
    \* circuit breaker on its own: openUntilMsByKey, clock, the last call with
    \* the clock and open-until it saw and what it returned
    kOpenUntil, kNow, kLast,
    \* Secondary gating of a trigger window's scans: the configuration, the phase,
    \* openOceanTicks, armed, the scans made in each phase (all and unforced),
    \* the last scan
    oCfg, oPhase, oTicks, oArmed, oSeen, oLast,
    \* The Secondary section of scanPair on given inputs: the inputs, what the
    \* section did
    yIn, yOut,
    \* Secondary client (OpenOceanClient.call): minIntervalMs, the clock and its
    \* steps, bannedUntilMs, its limiter, the limiter's chain and calls, the
    \* callers
    cMinInterval, cNow, cTicks, cBan, cLim, cChain, cJobs, cCalls

decVars == <<dPc, dArgs, dRes, dChild, dPending, dOwed, dFailure, dCalls>>

exVars == <<xCfg, xBest, xPc, xNet, xLog, xRes, xSim, xBundle, xConfirm, xExec>>

scVars == <<sCfg, sPc, sNow, sOpenUntil, sFeeExp, sIdx, sLeg, sCands, sReqs, sRes>>

limVars == <<lCfg, lNow, lTicks, lLim, lChain, lJobs, lStarted, lCalls>>

atVars == <<bIn, bOut>>

feeVars == <<fCfg, fNow, fCache, fUsed>>

qcVars == <<qTtl, qNow, qCache, qReqs, qCalls>>

trigVars == <<tCfg, tNow, tStart, tPhase, tEma, tVar, tSamples, tArmed, tPeak, tDecline, tRes, tStop, tRun, tSignals, tLast>>

rotVars == <<rCfg, rCursor, rState, rWindow, rTicks, rExpect, rLast>>

schedVars == <<mCfg, mNow, mStop, mPc, mWake, mCooldowns, mNextScanAt, mStates, mQueue, mWorkers, mErrors>>

logVars == <<gCfg, gFiles, gKnown, gChain, gIssued>>

tipVars == <<jCfg, jTip>>

setupVars == <<wMints, wBefore, wAccounts, wGroups, wSent, wSigs, wPc>>

brkVars == <<kOpenUntil, kNow, kLast>>

gateVars == <<oCfg, oPhase, oTicks, oArmed, oSeen, oLast>>

ooGateVars == <<yIn, yOut>>

ocVars == <<cMinInterval, cNow, cTicks, cBan, cLim, cChain, cJobs, cCalls>>

vars == <<decVars, exVars, scVars, limVars, atVars, feeVars, qcVars, trigVars, rotVars, schedVars, logVars, tipVars, setupVars, brkVars, gateVars, ooGateVars, ocVars>>

\* What each component leaves alone.
othersDec == <<exVars, scVars, limVars, atVars, feeVars, qcVars, trigVars, rotVars, schedVars, logVars, tipVars, setupVars, brkVars, gateVars, ooGateVars, ocVars>>

othersEx == <<decVars, scVars, limVars, atVars, feeVars, qcVars, trigVars, rotVars, schedVars, logVars, tipVars, setupVars, brkVars, gateVars, ooGateVars, ocVars>>

othersSc == <<decVars, exVars, limVars, atVars, feeVars, qcVars, trigVars, rotVars, schedVars, logVars, tipVars, setupVars, brkVars, gateVars, ooGateVars, ocVars>>

othersLim == <<decVars, exVars, scVars, atVars, feeVars, qcVars, trigVars, rotVars, schedVars, logVars, tipVars, setupVars, brkVars, gateVars, ooGateVars, ocVars>>

othersAt == <<decVars, exVars, scVars, limVars, feeVars, qcVars, trigVars, rotVars, schedVars, logVars, tipVars, setupVars, brkVars, gateVars, ooGateVars, ocVars>>

othersFee == <<decVars, exVars, scVars, limVars, atVars, qcVars, trigVars, rotVars, schedVars, logVars, tipVars, setupVars, brkVars, gateVars, ooGateVars, ocVars>>

othersQc == <<decVars, exVars, scVars, limVars, atVars, feeVars, trigVars, rotVars, schedVars, logVars, tipVars, setupVars, brkVars, gateVars, ooGateVars, ocVars>>

othersTrig == <<decVars, exVars, scVars, limVars, atVars, feeVars, qcVars, rotVars, schedVars, logVars, tipVars, setupVars, brkVars, gateVars, ooGateVars, ocVars>>

othersRot == <<decVars, exVars, scVars, limVars, atVars, feeVars, qcVars, trigVars, schedVars, logVars, tipVars, setupVars, brkVars, gateVars, ooGateVars, ocVars>>

othersSched == <<decVars, exVars, scVars, limVars, atVars, feeVars, qcVars, trigVars, rotVars, logVars, tipVars, setupVars, brkVars, gateVars, ooGateVars, ocVars>>

othersLog == <<decVars, exVars, scVars, limVars, atVars, feeVars, qcVars, trigVars, rotVars, schedVars, tipVars, setupVars, brkVars, gateVars, ooGateVars, ocVars>>

othersTip == <<decVars, exVars, scVars, limVars, atVars, feeVars, qcVars, trigVars, rotVars, schedVars, logVars, setupVars, brkVars, gateVars, ooGateVars, ocVars>>

othersSetup == <<decVars, exVars, scVars, limVars, atVars, feeVars, qcVars, trigVars, rotVars, schedVars, logVars, tipVars, brkVars, gateVars, ooGateVars, ocVars>>

othersBrk == <<decVars, exVars, scVars, limVars, atVars, feeVars, qcVars, trigVars, rotVars, schedVars, logVars, tipVars, setupVars, gateVars, ooGateVars, ocVars>>

othersGate == <<decVars, exVars, scVars, limVars, atVars, feeVars, qcVars, trigVars, rotVars, schedVars, logVars, tipVars, setupVars, brkVars, ooGateVars, ocVars>>

othersOoGate == <<decVars, exVars, scVars, limVars, atVars, feeVars, qcVars, trigVars, rotVars, schedVars, logVars, tipVars, setupVars, brkVars, gateVars, ocVars>>

othersOc == <<decVars, exVars, scVars, limVars, atVars, feeVars, qcVars, trigVars, rotVars, schedVars, logVars, tipVars, setupVars, brkVars, gateVars, ooGateVars>>

\* ------------------------------------------------------------------------
\* Bounds of the model
\* ------------------------------------------------------------------------

\* Largest atomic amount (in, out, minOut, fee, minProfit) the decider is given.
MaxAmount == 3

\* Largest JITO_WAIT_MS the executor is configured with (0 = do not wait).
MaxJitoWaitMs == 1

\* Largest tip (lamports) a candidate carries.
MaxTipLamports == 1

\* Last instant of the scanner's clock.
MaxClock == 4

\* Largest 429 cooldown of the breaker (0 = the breaker never opens).
MaxCooldownMs == 2

\* Largest time-to-live of a fee-conversion cache entry.
MaxFeeTtlMs == 2

\* Largest number of amounts a pair is scanned with.
MaxAmounts == 2

\* Largest number of note429() calls on one limiter.
Max429 == 2
MaxHorizonMs == 600
MaxBucketCalls == 3

\* Largest configured maxAttempts of the retry wrapper (0 is raised to 1).
MaxAttemptsCfg == 2

\* Largest configured burst of the token bucket.
MaxBurst == 2

\* Largest number of setup instructions a leg's swap-instructions response
\* carries.
MaxSetup == 2

\* Largest lamport fee estimate of a candidate.
MaxFeeLamports == 8

\* Last step of the fee conversion's clock.
MaxFeeTicks == 3

\* Largest ttlMs of the quote cache.
MaxQuoteTtl == 2

\* Last instant of the quote cache's clock.
MaxQuoteClock == 3

\* Largest number of free steps of the limiter's clock (timers that are due
\* fire beyond it).
MaxLimTicks == 1

\* ------------------------------------------------------------------------
\* Decimal strings and big integers
\* ------------------------------------------------------------------------

\* A decimal string as the code passes amounts around: an optional minus sign
\* and a magnitude ("-12" is [neg |-> TRUE, mag |-> 12]).
DecString(lo, hi) == [neg : BOOLEAN, mag : lo..hi]

Abs(n) == IF n < 0 THEN 0 - n ELSE n

\* bigint.toString()
ToDecString(n) == [neg |-> n < 0, mag |-> Abs(n)]

\* BigInt(s) of a decimal string
BigIntOf(s) == IF s.neg THEN 0 - s.mag ELSE s.mag

\* ------------------------------------------------------------------------
\* Idle values of the components a specification does not exercise
\* ------------------------------------------------------------------------

NoValue == [none |-> TRUE]

ExIdle == /\ xCfg = NoValue
          /\ xBest = NoValue
          /\ xPc = "idle"
          /\ xNet = <<>>
          /\ xLog = <<>>
          /\ xRes = NoValue
          /\ xSim = {}
          /\ xBundle = NoValue
          /\ xConfirm = "unset"
          /\ xExec = <<>>

Providers == {"jupiter", "openocean"}

ScanIdle == /\ sCfg = NoValue
            /\ sPc = "off"
            /\ sNow = 0
            /\ sOpenUntil = [p \in Providers |-> 0]
            /\ sFeeExp = 0
            /\ sIdx = 0
            /\ sLeg = 0
            /\ sCands = 0
            /\ sReqs = {}
            /\ sRes = "none"

LimIdle == /\ lCfg = NoValue
           /\ lNow = 0
           /\ lTicks = 0
           /\ lLim = NoValue
           /\ lChain = 0
           /\ lJobs = <<>>
           /\ lStarted = <<>>
           /\ lCalls = NoValue

\* ------------------------------------------------------------------------
\* Decider
\* ------------------------------------------------------------------------

NoDecision == [none |-> TRUE]

DecisionOf(profitable, profit, conservativeProfit) ==
    [profitable |-> profitable,
     profit |-> ToDecString(profit),
     conservativeProfit |-> ToDecString(conservativeProfit)]

\* scanner.ts decidePathInTs: the decider of the triangular path.
decidePathInTs(amountInS, finalOutS, finalMinOutS, minProfitS, feeEstimateInAS) ==
    LET amountIn == BigIntOf(amountInS)
        out == BigIntOf(finalOutS)
        outMin == BigIntOf(finalMinOutS)
        minProfit == BigIntOf(minProfitS)
        feeEstimate == BigIntOf(feeEstimateInAS)
        profit == out - amountIn - feeEstimate
        conservativeProfit == outMin - amountIn - feeEstimate
    IN DecisionOf(conservativeProfit >= minProfit, profit, conservativeProfit)

\* decideInTs with a strict comparison: a candidate whose conservative profit
\* equals the minimum is turned down.
decideInTsStrict(amountInS, quote2OutS, quote2MinOutS, minProfitS, feeEstimateLamportsS) ==
    LET amountIn == BigIntOf(amountInS)
        out == BigIntOf(quote2OutS)
        outMin == BigIntOf(quote2MinOutS)
        minProfit == BigIntOf(minProfitS)
        feeEstimate == BigIntOf(feeEstimateLamportsS)
        profit == out - amountIn - feeEstimate
        conservativeProfit == outMin - amountIn - feeEstimate
    IN DecisionOf(conservativeProfit > minProfit, profit, conservativeProfit)

\* rustDecision.ts decideInTs: the in-process decider of the loop path.
decideInTs(amountInS, quote2OutS, quote2MinOutS, minProfitS, feeEstimateLamportsS) ==
    LET amountIn == BigIntOf(amountInS)
        out == BigIntOf(quote2OutS)
        outMin == BigIntOf(quote2MinOutS)
        minProfit == BigIntOf(minProfitS)
        feeEstimate == BigIntOf(feeEstimateLamportsS)
        profit == out - amountIn - feeEstimate
        conservativeProfit == outMin - amountIn - feeEstimate
    IN DecisionOf(conservativeProfit >= minProfit, profit, conservativeProfit)

\* The reply of the offloaded decider (rust/arb_calc, not part of the sources):
\* the specification gives it the semantics of the in-process decider.
RustReply(a) ==
    LET profit == BigIntOf(a.out) - BigIntOf(a.amountIn) - BigIntOf(a.fee)
        conservativeProfit == BigIntOf(a.minOut) - BigIntOf(a.amountIn) - BigIntOf(a.fee)
    IN DecisionOf(conservativeProfit >= BigIntOf(a.minProfit), profit, conservativeProfit)

MaxDecisions == 2

AmountStrings == {ToDecString(n) : n \in 0..MaxAmount}

DecideArgs ==
    [amountIn : AmountStrings, out : AmountStrings, minOut : AmountStrings,
     fee : AmountStrings, minProfit : AmountStrings,
     triangular : BOOLEAN, useRust : BOOLEAN]

DecIdle == /\ dPc = "idle"
           /\ dArgs = NoValue
           /\ dRes = NoDecision
           /\ dChild = "none"
           /\ dPending = <<>>
           /\ dOwed = 0
           /\ dFailure = ""
           /\ dCalls = 0

AtIdle == /\ bIn = NoValue
          /\ bOut = NoValue

FeeIdle == /\ fCfg = NoValue
           /\ fNow = 0
           /\ fCache = NoValue
           /\ fUsed = NoValue

QcIdle == /\ qTtl = 0
          /\ qNow = 0
          /\ qCache = NoValue
          /\ qReqs = <<>>
          /\ qCalls = NoValue

TrigIdle == /\ tCfg = NoValue
            /\ tNow = 0
            /\ tStart = 0
            /\ tPhase = "off"
            /\ tEma = NoValue
            /\ tVar = 0
            /\ tSamples = 0
            /\ tArmed = FALSE
            /\ tPeak = 0
            /\ tDecline = 0
            /\ tRes = ""
            /\ tStop = FALSE
            /\ tRun = 0
            /\ tSignals = 0
            /\ tLast = NoValue

RotIdle == /\ rCfg = NoValue
           /\ rCursor = 0
           /\ rState = NoValue
           /\ rWindow = 0
           /\ rTicks = 0
           /\ rExpect = 0
           /\ rLast = NoValue

SchedIdle == /\ mCfg = NoValue
             /\ mNow = 0
             /\ mStop = FALSE
             /\ mPc = "off"
             /\ mWake = 0
             /\ mCooldowns = NoValue
             /\ mNextScanAt = NoValue
             /\ mStates = {}
             /\ mQueue = <<>>
             /\ mWorkers = NoValue
             /\ mErrors = NoValue

LogIdle == /\ gCfg = NoValue
           /\ gFiles = NoValue
           /\ gKnown = NoValue
           /\ gChain = <<>>
           /\ gIssued = <<>>

TipIdle == /\ jCfg = NoValue
           /\ jTip = [def |-> FALSE, v |-> 0]

SetupIdle == /\ wMints = <<>>
             /\ wBefore = {}
             /\ wAccounts = {}
             /\ wGroups = <<>>
             /\ wSent = <<>>
             /\ wSigs = <<>>
             /\ wPc = "idle"

BrkIdle == /\ kOpenUntil = NoValue
           /\ kNow = 0
           /\ kLast = NoValue

GateIdle == /\ oCfg = NoValue
            /\ oPhase = "idle"
            /\ oTicks = NoValue
            /\ oArmed = FALSE
            /\ oSeen = NoValue
            /\ oLast = NoValue

OoGateIdle == /\ yIn = NoValue
              /\ yOut = ""

OcIdle == /\ cMinInterval = 0
          /\ cNow = 0
          /\ cTicks = 0
          /\ cBan = 0
          /\ cLim = NoValue
          /\ cChain = 0
          /\ cJobs = <<>>
          /\ cCalls = NoValue

DecInit == /\ dPc = "call"
           /\ dArgs \in DecideArgs
           /\ dRes = NoDecision
           /\ dChild = "none"
           /\ dPending = <<>>
           /\ dOwed = 0
           /\ dFailure = ""
           /\ dCalls = 1
           /\ ExIdle
           /\ ScanIdle
           /\ LimIdle
           /\ AtIdle
           /\ FeeIdle
           /\ QcIdle
           /\ TrigIdle
           /\ RotIdle
           /\ SchedIdle
           /\ LogIdle
           /\ TipIdle
           /\ SetupIdle
           /\ BrkIdle
           /\ GateIdle
           /\ OoGateIdle
           /\ OcIdle

engineVars == <<dChild, dPending, dOwed, dFailure>>

\* scanPair, triangular branch: const decision = decidePathInTs({...})
DecidePath ==
    /\ dPc = "call"
    /\ dArgs.triangular
    /\ dRes' = decidePathInTs(dArgs.amountIn, dArgs.out, dArgs.minOut, dArgs.minProfit, dArgs.fee)
    /\ dPc' = "done"
    /\ UNCHANGED <<dArgs, dCalls, engineVars, othersDec>>

\* decideWithOptionalRust with useRust = false: the in-process decider.
DecideLoopTs ==
    /\ dPc = "call"
    /\ ~dArgs.triangular
    /\ ~dArgs.useRust
    /\ dRes' = decideInTs(dArgs.amountIn, dArgs.out, dArgs.minOut, dArgs.minProfit, dArgs.fee)
    /\ dPc' = "done"
    /\ UNCHANGED <<dArgs, dCalls, engineVars, othersDec>>

\* getRustEngine: the engine is spawned on the first request and cached by
\* path from then on, whatever became of the child. The spawn either starts
\* the child or fails, and a failed spawn emits 'error' once, later.
getRustEngine(child) == IF child = "none" THEN {"running", "failing"} ELSE {child}

\* decideWithOptionalRust with useRust = true, up to the await in
\* engine.request: the resolver joins the pending queue, the 'error' and
\* stderr listeners are registered and the request line is written.
DecideRustRequest ==
    /\ dPc = "call"
    /\ ~dArgs.triangular
    /\ dArgs.useRust
    /\ dChild' \in getRustEngine(dChild)
    /\ dPending' = Append(dPending, "request")
    /\ dOwed' = IF dChild' = "running" THEN dOwed + 1 ELSE dOwed
    /\ dFailure' = ""
    /\ dPc' = "rust"
    /\ UNCHANGED <<dArgs, dRes, dCalls, othersDec>>

\* rl.on('line'): the child answers one line and the first resolver of the
\* queue takes it. When that is the resolver of the awaited request the line
\* is parsed as the decision.
DecideRustOk ==
    /\ dPc = "rust"
    /\ dChild = "running"
    /\ dOwed > 0
    /\ Head(dPending) = "request"
    /\ dRes' = RustReply(dArgs)
    /\ dPc' = "done"
    /\ dPending' = Tail(dPending)
    /\ dOwed' = dOwed - 1
    /\ UNCHANGED <<dArgs, dChild, dFailure, dCalls, othersDec>>

\* rl.on('line') when the first resolver of the queue belongs to a request
\* that was rejected earlier: the line settles nothing.
DecideRustStaleLine ==
    /\ dChild = "running"
    /\ dOwed > 0
    /\ dPending # <<>>
    /\ Head(dPending) = "settled"
    /\ dPending' = Tail(dPending)
    /\ dOwed' = dOwed - 1
    /\ dFailure' = IF dPc = "rust" /\ dOwed = 1 THEN "reply-lost" ELSE dFailure
    /\ UNCHANGED <<dPc, dArgs, dRes, dChild, dCalls, othersDec>>

\* The resolver of the awaited request stays in the queue when the promise
\* is rejected: reject() does not remove it.
rejected(pending) == [i \in 1..Len(pending) |-> "settled"]

\* The request fails and the catch block of decideWithOptionalRust falls back
\* to the in-process decider: the failed spawn's 'error' event, data on the
\* child's stderr (with or without a reply line to follow), or a reply line
\* that JSON.parse rejects.
DecideRustFail ==
    /\ dPc = "rust"
    /\ \E kind \in {"error", "stderr", "parse"} :
        /\ dFailure' = kind
        /\ CASE kind = "error" ->
                  /\ dChild = "failing"
                  /\ dChild' = "failed"
                  /\ dPending' = rejected(dPending)
                  /\ dOwed' = dOwed
             [] kind = "stderr" ->
                  /\ dChild = "running"
                  /\ dOwed > 0
                  /\ dChild' = dChild
                  /\ dPending' = rejected(dPending)
                  /\ dOwed' \in {dOwed - 1, dOwed}
             [] kind = "parse" ->
                  /\ dChild = "running"
                  /\ dOwed > 0
                  /\ Head(dPending) = "request"
                  /\ dChild' = dChild
                  /\ dPending' = Tail(dPending)
                  /\ dOwed' = dOwed - 1
    /\ dRes' = decideInTs(dArgs.amountIn, dArgs.out, dArgs.minOut, dArgs.minProfit, dArgs.fee)
    /\ dPc' = "done"
    /\ UNCHANGED <<dArgs, dCalls, othersDec>>

\* The child ends without writing to stderr (killed, crashed): nothing is
\* registered for 'exit' or 'close', so no listener of the request runs.
DecideRustExit ==
    /\ dChild = "running"
    /\ dChild' = "exited"
    /\ dOwed' = 0
    /\ dFailure' = IF dPc = "rust" THEN "exit" ELSE dFailure
    /\ UNCHANGED <<dPc, dArgs, dRes, dPending, dCalls, othersDec>>

\* A request written to a child that is gone: no line, no 'error' event and
\* no stderr data will come.
DecideRustDead ==
    /\ dPc = "rust"
    /\ dChild \in {"failed", "exited"}
    /\ dFailure = ""
    /\ dFailure' = "dead"
    /\ UNCHANGED <<dPc, dArgs, dRes, dChild, dPending, dOwed, dCalls, othersDec>>

\* The loop scanner asks the engine again: the same amount and settings
\* with the quotes of the next scan.
DecideAgain ==
    /\ dPc = "done"
    /\ ~dArgs.triangular
    /\ dArgs.useRust
    /\ dCalls < MaxDecisions
    /\ dCalls' = dCalls + 1
    /\ \E out \in AmountStrings, minOut \in AmountStrings :
        dArgs' = [dArgs EXCEPT !.out = out, !.minOut = minOut]
    /\ dPc' = "call"
    /\ dRes' = NoDecision
    /\ dFailure' = ""
    /\ UNCHANGED <<dChild, dPending, dOwed, othersDec>>

DecNext ==
    \/ DecidePath
    \/ DecideLoopTs
    \/ DecideRustRequest
    \/ DecideRustOk
    \/ DecideRustStaleLine
    \/ DecideRustFail
    \/ DecideRustExit
    \/ DecideRustDead
    \/ DecideAgain

SpecDecide == DecInit /\ [][DecNext]_vars

\* The loop scanner with the offloaded decider enabled (USE_RUST_CALC).
DecRustInit ==
    /\ DecInit
    /\ dArgs.useRust
    /\ ~dArgs.triangular

DecRustNext ==
    \/ DecideRustRequest
    \/ DecideRustOk
    \/ DecideRustStaleLine
    \/ DecideRustFail
    \/ DecideRustExit
    \/ DecideRustDead
    \/ DecideAgain

\* Every step of the decider and of the event loop that is enabled is
\* eventually taken; the end of the child is the environment's choice.
DecFairness ==
    /\ WF_vars(DecideRustRequest)
    /\ WF_vars(DecideRustOk)
    /\ WF_vars(DecideRustStaleLine)
    /\ WF_vars(DecideRustFail)
    /\ WF_vars(DecideRustDead)
    /\ WF_vars(DecideAgain)

SpecDecideFair == DecRustInit /\ [][DecRustNext]_vars /\ DecFairness

\* ------------------------------------------------------------------------
\* Executor: executeCandidate and the call sites of the trigger engine
\* ------------------------------------------------------------------------

TriggerStrategies == {"immediate", "avg-window", "vwap", "bollinger"}

\* The parameters executeCandidate is called with. A flag that the code reads
\* only in one mode keeps its default in the other (dryRunSimulate in live,
\* livePreflightSimulate and minBalanceLamports in dry-run, the bundle
\* parameters under the sequential strategy).
ExConfigs ==
    {c \in [mode : {"dry-run", "live"},
            executionStrategy : {"atomic", "sequential"},
            triggerStrategy : TriggerStrategies,
            dryRunBuild : BOOLEAN,
            dryRunSimulate : BOOLEAN,
            livePreflightSimulate : BOOLEAN,
            minBalance : BOOLEAN,
            jitoEnabled : BOOLEAN,
            jitoWaitMs : 0..MaxJitoWaitMs,
            jitoFallbackRpc : BOOLEAN,
            execKind : {"swap-v1", "ultra"},
            hasOpenOcean : BOOLEAN,
            cMint : BOOLEAN,
            aMintSol : BOOLEAN] :
        /\ (c.mode = "live" => ~c.dryRunSimulate)
        /\ (c.mode = "dry-run" => ~c.livePreflightSimulate /\ ~c.minBalance)
        /\ (c.executionStrategy = "sequential" =>
                ~c.jitoEnabled /\ c.jitoWaitMs = 0 /\ ~c.jitoFallbackRpc)}

\* The candidates executeCandidate can be handed under a configuration: a
\* triangular one exactly for a pair with cMint, a Secondary one when the
\* Secondary client exists; the executor makes its own test of the strategy.
CandidateKinds(c) ==
    IF c.cMint THEN {"triangular"}
    ELSE {"loop"} \cup (IF c.hasOpenOcean THEN {"loop_openocean"} ELSE {})

Candidates(c) ==
    [kind : CandidateKinds(c), profitable : BOOLEAN, jitoTipLamports : 0..MaxTipLamports]

\* simulateTransaction's value.err: null, or a TransactionError.
SimErrs == {"null", "InstructionError"}

Skipped(reason) == [kind |-> "skipped", reason |-> reason]

Outcome(kind) == [kind |-> kind]

\* An awaited call that rejects: executeCandidate rejects with it.
Threw == [kind |-> "threw"]

Op(op, tx) == [op |-> op, tx |-> tx]

SendOps == {"rpc-send", "ultra-execute", "jito-bundle"}

ExInit == /\ xCfg \in ExConfigs
          /\ xBest = NoValue
          /\ xPc = "trigger"
          /\ xNet = <<>>
          /\ xLog = <<>>
          /\ xRes = NoValue
          /\ xSim = {}
          /\ xBundle = NoValue
          /\ xConfirm = "unset"
          /\ xExec = <<>>
          /\ DecIdle
          /\ ScanIdle
          /\ LimIdle
          /\ AtIdle
          /\ FeeIdle
          /\ QcIdle
          /\ TrigIdle
          /\ RotIdle
          /\ SchedIdle
          /\ LogIdle
          /\ TipIdle
          /\ SetupIdle
          /\ BrkIdle
          /\ GateIdle
          /\ OoGateIdle
          /\ OcIdle

\* The executor finishes with result r after logging the events evs.
ExFinish(r, evs) ==
    /\ xRes' = r
    /\ xLog' = xLog \o evs
    /\ xPc' = "done"

\* scanAndMaybeExecute, immediate strategy: one scan; without a best candidate
\* the result is skipped/no-candidate, else the executor is called with it,
\* whatever its decision.
TrigImmediate ==
    /\ xPc = "trigger"
    /\ xCfg.triggerStrategy = "immediate"
    /\ \E found \in BOOLEAN :
         IF found
         THEN /\ xBest' \in Candidates(xCfg)
              /\ xPc' = "start"
              /\ UNCHANGED <<xLog, xRes>>
         ELSE /\ ExFinish(Skipped("no-candidate"), <<"skip">>)
              /\ UNCHANGED xBest
    /\ UNCHANGED <<xCfg, xNet, xSim, xBundle, xConfirm, xExec, othersEx>>

\* scanAndMaybeExecute, avg-window / vwap / bollinger: every call site of the
\* executor sits behind best.decision.profitable (together with the
\* strategy's numeric rule, which is an input here); a window that never fires
\* ends skipped.
TrigWindow ==
    /\ xPc = "trigger"
    /\ xCfg.triggerStrategy # "immediate"
    /\ \E best \in Candidates(xCfg), ruleMet \in BOOLEAN :
         IF ruleMet /\ best.profitable
         THEN /\ xBest' = best
              /\ xLog' = xLog \o <<"trigger_fire">>
              /\ xPc' = "start"
              /\ UNCHANGED xRes
         ELSE /\ ExFinish(Skipped("execute-window-expired"), <<"skip">>)
              /\ UNCHANGED xBest
    /\ UNCHANGED <<xCfg, xNet, xSim, xBundle, xConfirm, xExec, othersEx>>

\* shouldBuild without the mode test: dryRunBuild alone lets a candidate through.
shouldBuildAnyMode(best, c) == best.profitable \/ c.dryRunBuild

shouldBuild(best, c) == best.profitable \/ (c.mode = "dry-run" /\ c.dryRunBuild)

\* Where executeCandidate goes after its preconditions: the Secondary path,
\* the Ultra path, or the Primary atomic / sequential path.
ExRoute(best, c) ==
    IF best.kind = "loop_openocean" THEN "oo-swap1"
    ELSE IF c.execKind = "ultra" THEN "ultra-gate"
    ELSE IF best.kind = "triangular" /\ c.executionStrategy # "atomic" THEN "tri-skip"
    ELSE IF c.executionStrategy = "atomic" THEN "atomic-build"
    ELSE "seq-build"

\* executeCandidate, entry: the shouldBuild gate, then the balance gate.
ExStart ==
    /\ xPc = "start"
    /\ IF ~shouldBuild(xBest, xCfg)
       THEN ExFinish(Skipped("not-profitable"), <<"skip">>)
       ELSE /\ xPc' = (IF xCfg.mode = "live" /\ xCfg.minBalance
                       THEN "balance" ELSE ExRoute(xBest, xCfg))
            /\ UNCHANGED <<xRes, xLog>>
    /\ UNCHANGED <<xCfg, xBest, xNet, xSim, xBundle, xConfirm, xExec, othersEx>>

\* getBalance answered: below the minimum the result is skipped/min-balance.
ExBalance ==
    /\ xPc = "balance"
    /\ \E below \in BOOLEAN :
         IF below
         THEN ExFinish(Skipped("min-balance"), <<"skip">>)
         ELSE /\ xPc' = ExRoute(xBest, xCfg)
              /\ UNCHANGED <<xRes, xLog>>
    /\ UNCHANGED <<xCfg, xBest, xNet, xSim, xBundle, xConfirm, xExec, othersEx>>

\* A triangular candidate under the sequential strategy.
ExTriangularSkip ==
    /\ xPc = "tri-skip"
    /\ ExFinish(Skipped("triangular-requires-atomic"), <<"skip">>)
    /\ UNCHANGED <<xCfg, xBest, xNet, xSim, xBundle, xConfirm, xExec, othersEx>>

\* JavaScript truthiness of a simulation's err, as `if (sim.err)` tests it.
Truthy(err) == err # "null"

\* After the transactions are signed: the dry-run branch, the preflight, or
\* the first send.
AfterSigned(c, dry, pre, send) ==
    IF c.mode = "dry-run" THEN dry
    ELSE IF c.livePreflightSimulate THEN pre
    ELSE send

\* sendSignedTx / signAndSendV6Swap: sendRawTransaction, then
\* confirmTransaction; a failure of either rejects the executor.
RpcOutcomes == {"ok", "send-rejected", "confirm-rejected"}

\* --- Secondary (OpenOcean) sequential path ---

\* openOcean.swap for leg 1, deserialize, sign.
ExOoSwap1 ==
    /\ xPc = "oo-swap1"
    /\ IF xCfg.executionStrategy # "sequential"
       THEN /\ ExFinish(Skipped("openocean-requires-sequential"), <<"skip">>)
            /\ UNCHANGED xNet
       ELSE \E ok \in BOOLEAN :
              IF ok
              THEN /\ xNet' = xNet \o <<Op("build", "oo1"), Op("sign", "oo1")>>
                   /\ xPc' = AfterSigned(xCfg, "oo-dry", "oo-pre1", "oo-send1")
                   /\ UNCHANGED <<xRes, xLog>>
              ELSE /\ xNet' = xNet \o <<Op("build", "oo1")>>
                   /\ ExFinish(Threw, <<>>)
    /\ UNCHANGED <<xCfg, xBest, xSim, xBundle, xConfirm, xExec, othersEx>>

\* Dry-run: simulate both legs (leg 2 is built and signed for it), or stop at
\* the built transaction.
ExOoDry ==
    /\ xPc = "oo-dry"
    /\ IF xCfg.dryRunSimulate
       THEN \E e1 \in SimErrs, e2 \in SimErrs :
              /\ xNet' = xNet \o <<Op("build", "oo2"), Op("sign", "oo2")>>
              /\ xSim' = xSim \cup {<<"oo1", e1>>, <<"oo2", e2>>}
              /\ ExFinish(Outcome("simulated"), <<"simulate">>)
       ELSE /\ ExFinish(Outcome("built"), <<"built">>)
            /\ UNCHANGED <<xNet, xSim>>
    /\ UNCHANGED <<xCfg, xBest, xBundle, xConfirm, xExec, othersEx>>

\* Live preflight of leg 1.
ExOoPre1 ==
    /\ xPc = "oo-pre1"
    /\ \E e \in SimErrs :
         /\ xSim' = xSim \cup {<<"oo1", e>>}
         /\ IF Truthy(e)
            THEN ExFinish(Skipped("preflight-failed"), <<"preflight">>)
            ELSE /\ xLog' = xLog \o <<"preflight">>
                 /\ xPc' = "oo-send1"
                 /\ UNCHANGED xRes
    /\ UNCHANGED <<xCfg, xBest, xNet, xBundle, xConfirm, xExec, othersEx>>

\* Leg 1 is sent and confirmed.
ExOoSend1 ==
    /\ xPc = "oo-send1"
    /\ xNet' = xNet \o <<Op("rpc-send", "oo1")>>
    /\ \E o \in RpcOutcomes :
         IF o = "ok"
         THEN /\ xPc' = "oo-swap2"
              /\ UNCHANGED <<xRes, xLog>>
         ELSE ExFinish(Threw, <<>>)
    /\ UNCHANGED <<xCfg, xBest, xSim, xBundle, xConfirm, xExec, othersEx>>

\* openOcean.swap for leg 2, deserialize, sign.
ExOoSwap2 ==
    /\ xPc = "oo-swap2"
    /\ \E ok \in BOOLEAN :
         IF ok
         THEN /\ xNet' = xNet \o <<Op("build", "oo2"), Op("sign", "oo2")>>
              /\ xPc' = (IF xCfg.livePreflightSimulate THEN "oo-pre2" ELSE "oo-send2")
              /\ UNCHANGED <<xRes, xLog>>
         ELSE /\ xNet' = xNet \o <<Op("build", "oo2")>>
              /\ ExFinish(Threw, <<>>)
    /\ UNCHANGED <<xCfg, xBest, xSim, xBundle, xConfirm, xExec, othersEx>>

\* The preflight of leg 2 reporting its failure with the reason of leg 1.
ExOoPre2SameReason ==
    /\ xPc = "oo-pre2"
    /\ \E e \in SimErrs :
         /\ xSim' = xSim \cup {<<"oo2", e>>}
         /\ IF Truthy(e)
            THEN ExFinish(Skipped("preflight-failed"), <<"preflight">>)
            ELSE /\ xLog' = xLog \o <<"preflight">>
                 /\ xPc' = "oo-send2"
                 /\ UNCHANGED xRes
    /\ UNCHANGED <<xCfg, xBest, xNet, xBundle, xConfirm, xExec, othersEx>>

\* Live preflight of leg 2: its failure has its own reason.
ExOoPre2 ==
    /\ xPc = "oo-pre2"
    /\ \E e \in SimErrs :
         /\ xSim' = xSim \cup {<<"oo2", e>>}
         /\ IF Truthy(e)
            THEN ExFinish(Skipped("preflight-failed-leg2"), <<"preflight">>)
            ELSE /\ xLog' = xLog \o <<"preflight">>
                 /\ xPc' = "oo-send2"
                 /\ UNCHANGED xRes
    /\ UNCHANGED <<xCfg, xBest, xNet, xBundle, xConfirm, xExec, othersEx>>

\* Leg 2 is sent and confirmed.
ExOoSend2 ==
    /\ xPc = "oo-send2"
    /\ xNet' = xNet \o <<Op("rpc-send", "oo2")>>
    /\ \E o \in RpcOutcomes :
         IF o = "ok"
         THEN ExFinish(Outcome("executed"), <<"executed">>)
         ELSE ExFinish(Threw, <<>>)
    /\ UNCHANGED <<xCfg, xBest, xSim, xBundle, xConfirm, xExec, othersEx>>

\* --- Ultra path ---

\* The execute response of Ultra: status text, optional code, optional error
\* text (which may be empty or blank).
UltraResponses ==
    [status : {"Success", "Failed"},
     code : {"absent", "zero", "nonzero"},
     error : {"absent", "", " ", "boom"}] \cup {NoValue}

\* text.trim().length > 0
Trim(text) == IF text = " " THEN "" ELSE text
TrimmedNonEmpty(text) == Trim(text) # ""

\* status.toLowerCase() contains fail, error, revert or reject
StatusIndicatesError(status) == status = "Failed"

\* isUltraExecutionError reading the status text only.
isUltraExecutionErrorStatusOnly(exec) ==
    IF exec = NoValue THEN TRUE ELSE StatusIndicatesError(exec.status)

isUltraExecutionError(exec) ==
    IF exec = NoValue THEN TRUE
    ELSE \/ (exec.error \notin {"absent", ""} /\ TrimmedNonEmpty(exec.error))
         \/ exec.code = "nonzero"
         \/ StatusIndicatesError(exec.status)

\* The Ultra restrictions, checked before any order is requested.
ExUltraGate ==
    /\ xPc = "ultra-gate"
    /\ IF xCfg.executionStrategy # "sequential"
       THEN ExFinish(Skipped("ultra-requires-sequential"), <<"skip">>)
       ELSE IF xCfg.cMint
       THEN ExFinish(Skipped("ultra-does-not-support-triangular"), <<"skip">>)
       ELSE IF ~xCfg.aMintSol
       THEN ExFinish(Skipped("ultra-requires-sol-amint"), <<"skip">>)
       ELSE /\ xPc' = "ultra-order"
            /\ UNCHANGED <<xRes, xLog>>
    /\ UNCHANGED <<xCfg, xBest, xNet, xSim, xBundle, xConfirm, xExec, othersEx>>

\* Two orders, each with a pre-built transaction, both signed; an order
\* without a transaction rejects the executor.
ExUltraOrder ==
    /\ xPc = "ultra-order"
    /\ \E got \in 0..2 :
         IF got = 2
         THEN /\ xNet' = xNet \o <<Op("build", "u1"), Op("build", "u2"),
                                   Op("sign", "u1"), Op("sign", "u2")>>
              /\ xPc' = AfterSigned(xCfg, "ultra-dry", "ultra-pre", "ultra-exec1")
              /\ UNCHANGED <<xRes, xLog>>
         ELSE /\ xNet' = xNet \o (IF got = 0 THEN <<Op("build", "u1")>>
                                  ELSE <<Op("build", "u1"), Op("build", "u2")>>)
              /\ ExFinish(Threw, <<>>)
    /\ UNCHANGED <<xCfg, xBest, xSim, xBundle, xConfirm, xExec, othersEx>>

ExUltraDry ==
    /\ xPc = "ultra-dry"
    /\ IF xCfg.dryRunSimulate
       THEN \E e1 \in SimErrs, e2 \in SimErrs :
              /\ xSim' = xSim \cup {<<"u1", e1>>, <<"u2", e2>>}
              /\ ExFinish(Outcome("simulated"), <<"simulate">>)
       ELSE /\ ExFinish(Outcome("built"), <<"built">>)
            /\ UNCHANGED xSim
    /\ UNCHANGED <<xCfg, xBest, xNet, xBundle, xConfirm, xExec, othersEx>>

\* Live preflight of both legs before anything is executed.
ExUltraPre ==
    /\ xPc = "ultra-pre"
    /\ \E e1 \in SimErrs, e2 \in SimErrs :
         /\ xSim' = xSim \cup {<<"u1", e1>>, <<"u2", e2>>}
         /\ IF Truthy(e1) \/ Truthy(e2)
            THEN ExFinish(Skipped("preflight-failed"), <<"preflight">>)
            ELSE /\ xLog' = xLog \o <<"preflight">>
                 /\ xPc' = "ultra-exec1"
                 /\ UNCHANGED xRes
    /\ UNCHANGED <<xCfg, xBest, xNet, xBundle, xConfirm, xExec, othersEx>>

\* POST execute for leg 1; an error response ends the execution.
ExUltraExec1 ==
    /\ xPc = "ultra-exec1"
    /\ xNet' = xNet \o <<Op("ultra-execute", "u1")>>
    /\ \E r \in UltraResponses \cup {Threw} :
         IF r = Threw
         THEN /\ ExFinish(Threw, <<>>)
              /\ UNCHANGED xExec
         ELSE /\ xExec' = Append(xExec, r)
              /\ IF isUltraExecutionError(r)
                 THEN ExFinish(Skipped("ultra-exec-failed-leg1"), <<"skip">>)
                 ELSE /\ xPc' = "ultra-exec2"
                      /\ UNCHANGED <<xRes, xLog>>
    /\ UNCHANGED <<xCfg, xBest, xSim, xBundle, xConfirm, othersEx>>

\* POST execute for leg 2.
ExUltraExec2 ==
    /\ xPc = "ultra-exec2"
    /\ xNet' = xNet \o <<Op("ultra-execute", "u2")>>
    /\ \E r \in UltraResponses \cup {Threw} :
         IF r = Threw
         THEN /\ ExFinish(Threw, <<>>)
              /\ UNCHANGED xExec
         ELSE /\ xExec' = Append(xExec, r)
              /\ IF isUltraExecutionError(r)
                 THEN ExFinish(Skipped("ultra-exec-failed-leg2"), <<"skip">>)
                 ELSE ExFinish(Outcome("executed"), <<"executed">>)
    /\ UNCHANGED <<xCfg, xBest, xSim, xBundle, xConfirm, othersEx>>

\* --- Atomic path (one transaction; optional bundle) ---

wantJito(c) == c.mode = "live" /\ c.jitoEnabled

\* buildAtomicPathTransaction: the legs merged into one signed transaction.
ExAtomicBuild ==
    /\ xPc = "atomic-build"
    /\ \E ok \in BOOLEAN :
         IF ok
         THEN /\ xNet' = xNet \o <<Op("build", "atomic"), Op("sign", "atomic")>>
              /\ xPc' = AfterSigned(xCfg, "atomic-dry", "atomic-pre",
                                    IF wantJito(xCfg) THEN "jito-send" ELSE "atomic-send")
              /\ UNCHANGED <<xRes, xLog>>
         ELSE /\ xNet' = xNet \o <<Op("build", "atomic")>>
              /\ ExFinish(Threw, <<>>)
    /\ UNCHANGED <<xCfg, xBest, xSim, xBundle, xConfirm, xExec, othersEx>>

ExAtomicDry ==
    /\ xPc = "atomic-dry"
    /\ IF xCfg.dryRunSimulate
       THEN \E e \in SimErrs :
              /\ xSim' = xSim \cup {<<"atomic", e>>}
              /\ ExFinish(Outcome("simulated"), <<"simulate">>)
       ELSE /\ ExFinish(Outcome("built"), <<"built">>)
            /\ UNCHANGED xSim
    /\ UNCHANGED <<xCfg, xBest, xNet, xBundle, xConfirm, xExec, othersEx>>

\* The atomic preflight without the test of err: logged, then sent anyway.
ExAtomicPreUnchecked ==
    /\ xPc = "atomic-pre"
    /\ \E e \in SimErrs :
         /\ xSim' = xSim \cup {<<"atomic", e>>}
         /\ xLog' = xLog \o <<"preflight">>
         /\ xPc' = (IF wantJito(xCfg) THEN "jito-send" ELSE "atomic-send")
         /\ UNCHANGED xRes
    /\ UNCHANGED <<xCfg, xBest, xNet, xBundle, xConfirm, xExec, othersEx>>

\* Live preflight of the atomic transaction.
ExAtomicPre ==
    /\ xPc = "atomic-pre"
    /\ \E e \in SimErrs :
         /\ xSim' = xSim \cup {<<"atomic", e>>}
         /\ IF Truthy(e)
            THEN ExFinish(Skipped("preflight-failed"), <<"preflight">>)
            ELSE /\ xLog' = xLog \o <<"preflight">>
                 /\ xPc' = (IF wantJito(xCfg) THEN "jito-send" ELSE "atomic-send")
                 /\ UNCHANGED xRes
    /\ UNCHANGED <<xCfg, xBest, xNet, xBundle, xConfirm, xExec, othersEx>>

\* What the bundle send can come back with: sendBundle rejects; no wait was
\* asked for; or, while waiting, the timer fires first, a result message for
\* the bundle arrives, or the result stream fails.
BundleResults == [rejected : BOOLEAN, dropped : BOOLEAN]
BundleOutcome(sent, error, result) == [sent |-> sent, error |-> error, result |-> result]
sendBundleViaJito(waitMs) ==
    {BundleOutcome(sent, TRUE, NoValue) : sent \in BOOLEAN}
    \cup (IF waitMs = 0
          THEN {BundleOutcome(TRUE, FALSE, NoValue)}
          ELSE {BundleOutcome(TRUE, FALSE, NoValue), BundleOutcome(TRUE, TRUE, NoValue)}
               \cup {BundleOutcome(TRUE, FALSE, r) : r \in BundleResults})

\* shouldFallback without the waitMs test.
shouldFallbackAnyWait(c, b) ==
    /\ c.jitoFallbackRpc
    /\ (b.error \/ b.result = NoValue \/ b.result.rejected \/ b.result.dropped)

shouldFallback(c, b) ==
    /\ c.jitoFallbackRpc
    /\ c.jitoWaitMs > 0
    /\ (b.error \/ b.result = NoValue \/ b.result.rejected \/ b.result.dropped)

\* The bundle is sent and its outcome logged.
ExJitoSend ==
    /\ xPc = "jito-send"
    /\ xNet' = xNet \o <<Op("jito-bundle", "atomic")>>
    /\ xBundle' \in sendBundleViaJito(xCfg.jitoWaitMs)
    /\ xLog' = xLog \o <<"jito_bundle">>
    /\ xPc' = (IF shouldFallback(xCfg, xBundle') THEN "jito-fallback" ELSE "jito-confirm")
    /\ UNCHANGED <<xCfg, xBest, xRes, xSim, xConfirm, xExec, othersEx>>

\* RPC fallback: rebuild without the tip, send and confirm over RPC.
ExJitoFallback ==
    /\ xPc = "jito-fallback"
    /\ \E o \in RpcOutcomes \cup {"build-rejected"} :
         IF o = "build-rejected"
         THEN /\ xNet' = xNet \o <<Op("build", "rebuilt")>>
              /\ ExFinish(Threw, <<>>)
         ELSE /\ xNet' = xNet \o <<Op("build", "rebuilt"), Op("sign", "rebuilt"),
                                   Op("rpc-send", "rebuilt")>>
              /\ IF o = "ok"
                 THEN ExFinish(Outcome("executed"), <<"executed-fallback">>)
                 ELSE ExFinish(Threw, <<>>)
    /\ UNCHANGED <<xCfg, xBest, xSim, xBundle, xConfirm, xExec, othersEx>>

\* The confirmation step with a retry: a failed confirmation sends the
\* transaction over RPC.
ExJitoConfirmResend ==
    /\ xPc = "jito-confirm"
    /\ \E confirmed \in BOOLEAN :
         /\ xConfirm' = (IF confirmed THEN "confirmed" ELSE "failed")
         /\ xNet' = (IF confirmed THEN xNet ELSE xNet \o <<Op("rpc-send", "atomic")>>)
         /\ ExFinish(Outcome("executed"),
                     IF confirmed THEN <<"executed">> ELSE <<"confirm_error", "executed">>)
    /\ UNCHANGED <<xCfg, xBest, xSim, xBundle, xExec, othersEx>>

\* No fallback: confirm the signature of the transaction in the bundle; a
\* failed confirmation is logged and the execution still reported.
ExJitoConfirm ==
    /\ xPc = "jito-confirm"
    /\ \E confirmed \in BOOLEAN :
         /\ xConfirm' = (IF confirmed THEN "confirmed" ELSE "failed")
         /\ ExFinish(Outcome("executed"),
                     IF confirmed THEN <<"executed">> ELSE <<"confirm_error", "executed">>)
    /\ UNCHANGED <<xCfg, xBest, xNet, xSim, xBundle, xExec, othersEx>>

\* Atomic transaction over RPC.
ExAtomicSend ==
    /\ xPc = "atomic-send"
    /\ xNet' = xNet \o <<Op("rpc-send", "atomic")>>
    /\ \E o \in RpcOutcomes :
         IF o = "ok"
         THEN ExFinish(Outcome("executed"), <<"executed">>)
         ELSE ExFinish(Threw, <<>>)
    /\ UNCHANGED <<xCfg, xBest, xSim, xBundle, xConfirm, xExec, othersEx>>

\* --- Sequential Primary path (one transaction per leg) ---

\* buildSwapTransaction for both legs.
ExSeqBuild ==
    /\ xPc = "seq-build"
    /\ \E got \in 0..2 :
         IF got = 2
         THEN /\ xNet' = xNet \o <<Op("build", "s1"), Op("build", "s2")>>
              /\ xPc' = AfterSigned(xCfg, "seq-dry", "seq-pre", "seq-send1")
              /\ UNCHANGED <<xRes, xLog>>
         ELSE /\ xNet' = xNet \o (IF got = 0 THEN <<Op("build", "s1")>>
                                  ELSE <<Op("build", "s1"), Op("build", "s2")>>)
              /\ ExFinish(Threw, <<>>)
    /\ UNCHANGED <<xCfg, xBest, xSim, xBundle, xConfirm, xExec, othersEx>>

\* Live preflight: both legs are signed and simulated before either is sent.
ExSeqPre ==
    /\ xPc = "seq-pre"
    /\ xNet' = xNet \o <<Op("sign", "s1"), Op("sign", "s2")>>
    /\ \E e1 \in SimErrs, e2 \in SimErrs :
         /\ xSim' = xSim \cup {<<"s1", e1>>, <<"s2", e2>>}
         /\ IF Truthy(e1) \/ Truthy(e2)
            THEN ExFinish(Skipped("preflight-failed"), <<"preflight">>)
            ELSE /\ xLog' = xLog \o <<"preflight">>
                 /\ xPc' = "seq-send1"
                 /\ UNCHANGED xRes
    /\ UNCHANGED <<xCfg, xBest, xBundle, xConfirm, xExec, othersEx>>

\* signAndSendV6Swap for leg 1.
ExSeqSend1 ==
    /\ xPc = "seq-send1"
    /\ xNet' = xNet \o <<Op("sign", "s1"), Op("rpc-send", "s1")>>
    /\ \E o \in RpcOutcomes :
         IF o = "ok"
         THEN /\ xPc' = "seq-send2"
              /\ UNCHANGED <<xRes, xLog>>
         ELSE ExFinish(Threw, <<>>)
    /\ UNCHANGED <<xCfg, xBest, xSim, xBundle, xConfirm, xExec, othersEx>>

\* signAndSendV6Swap for leg 2.
ExSeqSend2 ==
    /\ xPc = "seq-send2"
    /\ xNet' = xNet \o <<Op("sign", "s2"), Op("rpc-send", "s2")>>
    /\ \E o \in RpcOutcomes :
         IF o = "ok"
         THEN ExFinish(Outcome("executed"), <<"executed">>)
         ELSE ExFinish(Threw, <<>>)
    /\ UNCHANGED <<xCfg, xBest, xSim, xBundle, xConfirm, xExec, othersEx>>

ExSeqDry ==
    /\ xPc = "seq-dry"
    /\ IF xCfg.dryRunSimulate
       THEN \E e1 \in SimErrs, e2 \in SimErrs :
              /\ xNet' = xNet \o <<Op("sign", "s1"), Op("sign", "s2")>>
              /\ xSim' = xSim \cup {<<"s1", e1>>, <<"s2", e2>>}
              /\ ExFinish(Outcome("simulated"), <<"simulate">>)
       ELSE /\ ExFinish(Outcome("built"), <<"built">>)
            /\ UNCHANGED <<xNet, xSim>>
    /\ UNCHANGED <<xCfg, xBest, xBundle, xConfirm, xExec, othersEx>>

ExNext ==
    \/ TrigImmediate
    \/ TrigWindow
    \/ ExStart
    \/ ExBalance
    \/ ExTriangularSkip
    \/ ExOoSwap1
    \/ ExOoDry
    \/ ExOoPre1
    \/ ExOoSend1
    \/ ExOoSwap2
    \/ ExOoPre2
    \/ ExOoSend2
    \/ ExUltraGate
    \/ ExUltraOrder
    \/ ExUltraDry
    \/ ExUltraPre
    \/ ExUltraExec1
    \/ ExUltraExec2
    \/ ExAtomicBuild
    \/ ExAtomicDry
    \/ ExAtomicPre
    \/ ExJitoSend
    \/ ExJitoFallback
    \/ ExJitoConfirm
    \/ ExAtomicSend
    \/ ExSeqBuild
    \/ ExSeqPre
    \/ ExSeqSend1
    \/ ExSeqSend2
    \/ ExSeqDry

SpecExec == ExInit /\ [][ExNext]_vars

\* ------------------------------------------------------------------------
\* Scanner: scanPair for one pair, with the per-provider circuit breaker
\* and the fee-conversion cache
\* ------------------------------------------------------------------------

\* The parameters of scanPair that decide which requests it makes. Without
\* the Secondary provider its cooldown is not read.
canUseOpenOceanAnyStrategy(c) == c.enableOpenOcean /\ c.hasOpenOcean

\* scanPair's canUseOpenOcean.
canUseOpenOcean(c) ==
    c.enableOpenOcean /\ c.executionStrategy = "sequential" /\ c.hasOpenOcean

ScanConfigs ==
    {c \in [triangular : BOOLEAN,
            enableOpenOcean : BOOLEAN,
            executionStrategy : {"atomic", "sequential"},
            hasOpenOcean : BOOLEAN,
            aMintSol : BOOLEAN,
            jup429CooldownMs : 0..MaxCooldownMs,
            openOcean429CooldownMs : 0..MaxCooldownMs,
            feeConversionCacheTtlMs : 1..MaxFeeTtlMs,
            amounts : 1..MaxAmounts] :
        /\ (c.triangular => ~(c.enableOpenOcean /\ c.hasOpenOcean))
        /\ (~(c.enableOpenOcean /\ c.hasOpenOcean) => c.openOcean429CooldownMs = 0)}

\* ProviderCircuitBreaker.isOpen
isOpen(openUntil, key, now) ==
    IF openUntil[key] = 0 THEN FALSE ELSE now < openUntil[key]

\* open without the comparison with the value in force.
openLatest(openUntil, key, cooldownMs, now) ==
    LET ms == IF cooldownMs < 0 THEN 0 ELSE cooldownMs
    IN IF ms <= 0 THEN openUntil ELSE [openUntil EXCEPT ![key] = now + ms]

\* ProviderCircuitBreaker.open: the map after open(key, cooldownMs) at now.
open(openUntil, key, cooldownMs, now) ==
    LET ms == IF cooldownMs < 0 THEN 0 ELSE cooldownMs
        until == now + ms
        prev == openUntil[key]
    IN IF ms <= 0 THEN openUntil
       ELSE IF until > prev THEN [openUntil EXCEPT ![key] = until]
       ELSE openUntil

\* A quote request as it leaves for a provider: what it is for, and whether
\* the pair's breaker for that provider is open at that instant.
QuoteRequest(provider, kind) ==
    [provider |-> provider, kind |-> kind,
     open |-> isOpen(sOpenUntil, provider, sNow)]

QuoteOutcomes == {"ok", "http429", "error"}

Legs(c) == IF c.triangular THEN 3 ELSE 2

ScanInit == /\ sCfg \in ScanConfigs
            /\ sPc = "idle"
            /\ sNow = 0
            /\ sOpenUntil = [p \in Providers |-> 0]
            /\ sFeeExp = 0
            /\ sIdx = 0
            /\ sLeg = 0
            /\ sCands = 0
            /\ sReqs = {}
            /\ sRes = "none"
            /\ DecIdle
            /\ ExIdle
            /\ LimIdle
            /\ AtIdle
            /\ FeeIdle
            /\ QcIdle
            /\ TrigIdle
            /\ RotIdle
            /\ SchedIdle
            /\ LogIdle
            /\ TipIdle
            /\ SetupIdle
            /\ BrkIdle
            /\ GateIdle
            /\ OoGateIdle
            /\ OcIdle

\* Time passes (every await of scanPair lets it).
ScanTick ==
    /\ sNow < MaxClock
    /\ sNow' = sNow + 1
    /\ UNCHANGED <<sCfg, sPc, sOpenUntil, sFeeExp, sIdx, sLeg, sCands, sReqs, sRes, othersSc>>

\* scanPair returns.
ScanReturn(res) ==
    /\ sPc' = "idle"
    /\ sRes' = res

\* The amounts loop is left: the triangular branch returns, the loop branch
\* goes on to the Secondary section.
ScanLeaveLoop ==
    IF sCfg.triangular
    THEN ScanReturn("scanned")
    ELSE /\ sPc' = "oo"
         /\ UNCHANGED sRes

\* scanPair, entry: an open Primary breaker ends the scan at once.
ScanBegin ==
    /\ sPc = "idle"
    /\ IF isOpen(sOpenUntil, "jupiter", sNow)
       THEN /\ ScanReturn("rate-limited")
            /\ UNCHANGED <<sIdx, sCands>>
       ELSE /\ sPc' = "amount"
            /\ sIdx' = 1
            /\ sCands' = 0
            /\ sRes' = "scanning"
    /\ UNCHANGED <<sCfg, sNow, sOpenUntil, sFeeExp, sLeg, sReqs, othersSc>>

\* Head of the amounts loop: no amount left, an amount above maxNotionalA
\* (continue), the breaker open (break), or the body is entered.
ScanAmount ==
    /\ sPc = "amount"
    /\ IF sIdx > sCfg.amounts
       THEN /\ ScanLeaveLoop
            /\ UNCHANGED <<sIdx, sLeg>>
       ELSE \E aboveMaxNotional \in BOOLEAN :
              IF aboveMaxNotional
              THEN /\ sIdx' = sIdx + 1
                   /\ UNCHANGED <<sPc, sRes, sLeg>>
              ELSE IF isOpen(sOpenUntil, "jupiter", sNow)
              THEN /\ ScanLeaveLoop
                   /\ UNCHANGED <<sIdx, sLeg>>
              ELSE /\ sPc' = "leg"
                   /\ sLeg' = 1
                   /\ UNCHANGED <<sIdx, sRes>>
    /\ UNCHANGED <<sCfg, sNow, sOpenUntil, sFeeExp, sCands, sReqs, othersSc>>

\* The catch block of the loop body: a 429 opens the Primary breaker and
\* breaks; another error goes on with the next amount.
ScanCatch(outcome) ==
    IF outcome = "http429"
    THEN /\ sOpenUntil' = open(sOpenUntil, "jupiter", sCfg.jup429CooldownMs, sNow)
         /\ ScanLeaveLoop
         /\ UNCHANGED sIdx
    ELSE /\ sIdx' = sIdx + 1
         /\ sPc' = "amount"
         /\ UNCHANGED <<sOpenUntil, sRes>>

\* jupQuote for one leg of the path.
ScanLegQuote ==
    /\ sPc = "leg"
    /\ sReqs' = sReqs \cup {QuoteRequest("jupiter", "leg")}
    /\ \E outcome \in QuoteOutcomes :
         IF outcome = "ok"
         THEN /\ IF sLeg < Legs(sCfg)
                 THEN /\ sLeg' = sLeg + 1
                      /\ UNCHANGED sPc
                 ELSE /\ sPc' = "fee"
                      /\ UNCHANGED sLeg
              /\ UNCHANGED <<sOpenUntil, sIdx, sRes>>
         ELSE /\ ScanCatch(outcome)
              /\ UNCHANGED sLeg
    /\ UNCHANGED <<sCfg, sNow, sFeeExp, sCands, othersSc>>

\* convertFeeLamportsToAAtomic asks the Primary provider for a SOL -> A quote
\* unless A is SOL or the pair's cache entry has not expired.
feeConversionNeedsQuote(c, feeExp, now) == ~c.aMintSol /\ ~(feeExp > now)

\* The fee conversion of a Primary candidate, the decision, the push.
ScanFeeConvert ==
    /\ sPc = "fee"
    /\ IF feeConversionNeedsQuote(sCfg, sFeeExp, sNow)
       THEN /\ sReqs' = sReqs \cup {QuoteRequest("jupiter", "fee")}
            /\ \E outcome \in QuoteOutcomes :
                 IF outcome = "ok"
                 THEN /\ sFeeExp' = sNow + sCfg.feeConversionCacheTtlMs
                      /\ sCands' = sCands + 1
                      /\ sIdx' = sIdx + 1
                      /\ sPc' = "amount"
                      /\ UNCHANGED <<sOpenUntil, sRes>>
                 ELSE /\ sFeeExp' = 0
                      /\ ScanCatch(outcome)
                      /\ UNCHANGED sCands
       ELSE /\ sCands' = sCands + 1
            /\ sIdx' = sIdx + 1
            /\ sPc' = "amount"
            /\ UNCHANGED <<sOpenUntil, sFeeExp, sReqs, sRes>>
    /\ UNCHANGED <<sCfg, sNow, sLeg, othersSc>>

\* Largest openOceanJupiterNearGateBps.
MaxNearGateBps == 2

\* The best Primary candidate of a scan: its amount and its conservative
\* profit, in atomic units of A.
GateBests == [amountA : {10000, 20000}, conservativeProfit : (0 - 3)..3]

\* openOceanJupiterGateBps as runScan passes it: undefined on a forced
\* scan, the configured integer otherwise.
GateBpsValues == {[def |-> FALSE, v |-> 0]} \cup {[def |-> TRUE, v |-> g] : g \in (0 - 1)..1}

\* openOceanJupiterNearGateBps: absent, or the configured integer.
NearGateBpsValues ==
    {[def |-> FALSE, v |-> 0]} \cup {[def |-> TRUE, v |-> n] : n \in (0 - 1)..MaxNearGateBps}

\* (profit * 10_000n) / amountA, as BigInt division gives it (the quotient
\* without its fraction), for amountA > 0.
jupiterBps(best) ==
    LET p == best.conservativeProfit * 10000
    IN  IF p >= 0 THEN p \div best.amountA ELSE 0 - ((0 - p) \div best.amountA)

\* The gates without the upper one.
jupiterGateLowerOnly(best, gateBps, nearGateBps) ==
    IF ~gateBps.def \/ best.amountA <= 0 THEN "pass"
    ELSE IF jupiterBps(best) < gateBps.v THEN "jupiter_gate"
    ELSE "pass"

\* The gates of scanPair on the best Primary candidate: the skip reason, or
\* "pass".
jupiterGate(best, gateBps, nearGateBps) ==
    IF ~gateBps.def \/ best.amountA <= 0 THEN "pass"
    ELSE IF jupiterBps(best) < gateBps.v THEN "jupiter_gate"
    ELSE IF nearGateBps.def /\ nearGateBps.v > 0
            /\ jupiterBps(best) > gateBps.v + nearGateBps.v THEN "jupiter_not_near_gate"
    ELSE "pass"

\* The Secondary section's preconditions: provider usable, its breaker
\* closed, a Primary candidate to compare with, the gates.
ScanOoGate ==
    /\ sPc = "oo"
    /\ IF ~canUseOpenOcean(sCfg)
       THEN /\ ScanReturn("scanned")
            /\ UNCHANGED sLeg
       ELSE IF isOpen(sOpenUntil, "openocean", sNow)
       THEN /\ ScanReturn("openocean-rate-limited")
            /\ UNCHANGED sLeg
       ELSE IF sCands = 0
       THEN /\ ScanReturn("no_jupiter_candidate")
            /\ UNCHANGED sLeg
       ELSE \E best \in GateBests, gateBps \in GateBpsValues, nearGateBps \in NearGateBpsValues :
              LET gate == jupiterGate(best, gateBps, nearGateBps)
              IN  IF gate = "pass"
                  THEN /\ sPc' = "oo-leg"
                       /\ sLeg' = 1
                       /\ UNCHANGED sRes
                  ELSE /\ ScanReturn(gate)
                       /\ UNCHANGED sLeg
    /\ UNCHANGED <<sCfg, sNow, sOpenUntil, sFeeExp, sIdx, sCands, sReqs, othersSc>>

\* The catch block of the Secondary section: a 429 opens the Secondary
\* breaker, whichever request raised it.
ScanOoCatch(outcome) ==
    /\ sOpenUntil' = (IF outcome = "http429"
                      THEN open(sOpenUntil, "openocean", sCfg.openOcean429CooldownMs, sNow)
                      ELSE sOpenUntil)
    /\ ScanReturn("scanned")

\* ooQuote for one leg.
ScanOoQuote ==
    /\ sPc = "oo-leg"
    /\ sReqs' = sReqs \cup {QuoteRequest("openocean", "leg")}
    /\ \E outcome \in QuoteOutcomes :
         IF outcome = "ok"
         THEN /\ IF sLeg < 2
                 THEN /\ sLeg' = sLeg + 1
                      /\ UNCHANGED sPc
                 ELSE /\ sPc' = "oo-fee"
                      /\ UNCHANGED sLeg
              /\ UNCHANGED <<sOpenUntil, sRes>>
         ELSE /\ ScanOoCatch(outcome)
              /\ UNCHANGED sLeg
    /\ UNCHANGED <<sCfg, sNow, sFeeExp, sIdx, sCands, othersSc>>

\* The fee conversion of the Secondary candidate (through the Primary
\* provider), the decision, the push.
ScanOoFeeConvert ==
    /\ sPc = "oo-fee"
    /\ IF feeConversionNeedsQuote(sCfg, sFeeExp, sNow)
       THEN /\ sReqs' = sReqs \cup {QuoteRequest("jupiter", "fee")}
            /\ \E outcome \in QuoteOutcomes :
                 IF outcome = "ok"
                 THEN /\ sFeeExp' = sNow + sCfg.feeConversionCacheTtlMs
                      /\ sCands' = sCands + 1
                      /\ ScanReturn("scanned")
                      /\ UNCHANGED sOpenUntil
                 ELSE /\ sFeeExp' = 0
                      /\ ScanOoCatch(outcome)
                      /\ UNCHANGED sCands
       ELSE /\ sCands' = sCands + 1
            /\ ScanReturn("scanned")
            /\ UNCHANGED <<sOpenUntil, sFeeExp, sReqs>>
    /\ UNCHANGED <<sCfg, sNow, sIdx, sLeg, othersSc>>

ScanNext ==
    \/ ScanTick
    \/ ScanBegin
    \/ ScanAmount
    \/ ScanLegQuote
    \/ ScanFeeConvert
    \/ ScanOoGate
    \/ ScanOoQuote
    \/ ScanOoFeeConvert

SpecScan == ScanInit /\ [][ScanNext]_vars

\* ------------------------------------------------------------------------
\* Rate limiters (MinIntervalRateLimiter, AdaptiveTokenBucketRateLimiter)
\* and the retry wrapper (call of withJupiterRateLimit)
\* ------------------------------------------------------------------------

Max(a, b) == IF a >= b THEN a ELSE b

Min(a, b) == IF a <= b THEN a ELSE b

\* Math.ceil(n / d) for n >= 0 and d > 0
CeilDiv(n, d) == (n + d - 1) \div d

\* Rates are integers in units of 1 / (20 * RpsScale) requests per second:
\* 0.05 rps is RpsScale units, and with at most Max429 halvings after the
\* quartering of the constructor every rate the limiter computes is exact.
RpsScale == 2 ^ (Max429 + 2)

RpsOf(twentieths) == twentieths * RpsScale

\* Tokens are integers in units of 1 / (1000 * 20 * RpsScale) of a token, so
\* that (elapsedMs / 1000) * rps is elapsedMs * rps units.
OneToken == 1000 * 20 * RpsScale

\* The wrapper's callers (scans running side by side).
Callers == {"a", "b"}

\* What the wrapped function rejects with.
Errors == {"HTTP 429", "HTTP 400", "AbortError", "SyntaxError"}

\* extractHttpStatus: the status in the message, 0 for none.
extractHttpStatus(error) ==
    IF error = "HTTP 429" THEN 429
    ELSE IF error = "HTTP 400" THEN 400
    ELSE 0

isRetryableStatus(status) == status \in {429, 500, 502, 503, 504}

isRetryableError(error) ==
    LET status == extractHttpStatus(error)
    IN IF status # 0 THEN isRetryableStatus(status)
       ELSE error = "AbortError"

\* Math.floor(Math.random() * Math.min(250, capped * 0.25)): its largest value.
JitterMax(capped) ==
    LET m == Min(250 * 4, Max(0, capped))
    IN IF m = 0 THEN 0 ELSE CeilDiv(m, 4) - 1

computeBackoffMs(attempt, baseDelayMs, maxDelayMs, jitter) ==
    LET exp == baseDelayMs * (2 ^ attempt)
        capped == Min(maxDelayMs, exp)
    IN Max(0, capped + jitter)

\* The constructor of AdaptiveTokenBucketRateLimiter, called as the program
\* calls it ({rps, burst, penaltyMs}: minRps, recoveryEveryMs and
\* recoveryStepRps take their defaults).
AdaptiveConfig(rps, burst, penaltyMs) ==
    LET baseRps == Max(RpsOf(2), rps)
    IN [baseRps |-> baseRps,
        minRps |-> Max(RpsOf(1), baseRps \div 4),
        burst |-> Max(1, burst),
        penaltyMs |-> Max(1000, penaltyMs),
        recoveryEveryMs |-> Max(1000, 10000),
        recoveryStepRps |-> Max(RpsOf(1), RpsOf(2))]

\* withJupiterRateLimit's reading of its config.
RetryConfig(maxAttempts, baseDelayMs, maxDelayMs) ==
    [maxAttempts |-> Max(1, maxAttempts),
     baseDelayMs |-> Max(0, baseDelayMs),
     maxDelayMs |-> Max(Max(0, baseDelayMs), maxDelayMs)]

\* The limiter behind the retry wrapper is the minimum-interval one; the
\* token bucket is scheduled on directly by its clients, who report each
\* outcome to it (bucket and retry are the other kind's unused settings).
LimConfigs ==
    {[kind |-> "minInterval", minIntervalMs |-> i,
      bucket |-> AdaptiveConfig(RpsOf(20), 1, 0), retry |-> RetryConfig(m, b, 600)] :
        i \in {200}, m \in 0..MaxAttemptsCfg, b \in {0, 400}}
    \cup
    {[kind |-> "adaptive", minIntervalMs |-> 0,
      bucket |-> AdaptiveConfig(rps, burst, 500), retry |-> RetryConfig(1, 0, 0)] :
        rps \in {RpsOf(1), RpsOf(20)}, burst \in 0..MaxBurst}

\* The fields of a limiter constructed at instant now.
NewLimiter(cfg, now) ==
    [lastRunAtMs |-> 0,
     cooldownUntilMs |-> 0,
     tokens |-> cfg.bucket.burst * OneToken,
     lastRefillAtMs |-> now,
     penaltyUntilMs |-> 0,
     lastRecoveryAtMs |-> 0,
     currentRps |-> cfg.bucket.baseRps,
     totalCalls |-> 0,
     total429 |-> 0]

\* cooldown without the comparison with the value in force.
cooldownLatest(lim, ms, now) ==
    [lim EXCEPT !.cooldownUntilMs = now + Max(0, ms)]

cooldown(lim, ms, now) ==
    [lim EXCEPT !.cooldownUntilMs = Max(@, now + Max(0, ms))]

\* note429 without the floor of minRps.
note429Unfloored(lim, bucket, now) ==
    [lim EXCEPT !.total429 = @ + 1,
                !.currentRps = @ \div 2,
                !.penaltyUntilMs = Max(@, now + bucket.penaltyMs),
                !.lastRecoveryAtMs = now]

note429(lim, bucket, now) ==
    [lim EXCEPT !.total429 = @ + 1,
                !.currentRps = Max(bucket.minRps, @ \div 2),
                !.penaltyUntilMs = Max(@, now + bucket.penaltyMs),
                !.lastRecoveryAtMs = now]

\* noteSuccess without the cap of baseRps.
noteSuccessUncapped(lim, bucket, now) ==
    IF now < lim.penaltyUntilMs THEN lim
    ELSE IF lim.currentRps >= bucket.baseRps THEN lim
    ELSE IF now - lim.lastRecoveryAtMs < bucket.recoveryEveryMs THEN lim
    ELSE [lim EXCEPT !.currentRps = @ + bucket.recoveryStepRps,
                     !.lastRecoveryAtMs = now]

noteSuccess(lim, bucket, now) ==
    IF now < lim.penaltyUntilMs THEN lim
    ELSE IF lim.currentRps >= bucket.baseRps THEN lim
    ELSE IF now - lim.lastRecoveryAtMs < bucket.recoveryEveryMs THEN lim
    ELSE [lim EXCEPT !.currentRps = Min(bucket.baseRps, @ + bucket.recoveryStepRps),
                     !.lastRecoveryAtMs = now]

\* refill without the clamp to burst.
refillUnclamped(lim, bucket, now) ==
    LET elapsedMs == Max(0, now - lim.lastRefillAtMs)
    IN [lim EXCEPT !.tokens = @ + elapsedMs * lim.currentRps,
                   !.lastRefillAtMs = now]

\* refill: currentRps is never below minRps >= 0.05, so the floor of 0.01
\* the code applies to it leaves it as it is.
refill(lim, bucket, now) ==
    LET elapsedMs == Max(0, now - lim.lastRefillAtMs)
    IN [lim EXCEPT !.tokens = Min(bucket.burst * OneToken, @ + elapsedMs * lim.currentRps),
                   !.lastRefillAtMs = now]

\* One pass of the loop of the token bucket's run: wait for the cooldown, or
\* refill and take a token, or wait for the missing part of a token.
AdaptiveTry(lim, bucket, now) ==
    IF lim.cooldownUntilMs - now > 0
    THEN [lim |-> lim, run |-> FALSE, wake |-> lim.cooldownUntilMs]
    ELSE LET r == refill(lim, bucket, now)
         IN IF r.tokens >= OneToken
            THEN [lim |-> [r EXCEPT !.tokens = @ - OneToken], run |-> TRUE, wake |-> 0]
            ELSE [lim |-> r, run |-> FALSE,
                  wake |-> now + Max(1, CeilDiv(OneToken - r.tokens, r.currentRps))]

\* The run of the minimum-interval limiter up to its sleep.
MinIntervalTry(lim, minIntervalMs, now) ==
    LET waitIntervalMs == lim.lastRunAtMs + minIntervalMs - now
        waitCooldownMs == lim.cooldownUntilMs - now
        waitMs == Max(waitIntervalMs, waitCooldownMs)
    IN IF waitMs > 0
       THEN [lim |-> lim, run |-> FALSE, wake |-> now + waitMs]
       ELSE [lim |-> [lim EXCEPT !.lastRunAtMs = now], run |-> TRUE, wake |-> 0]

\* A call handed to schedule: who made it, the call the chain ended with
\* when it was made (0: the resolved promise the chain starts as), where its
\* run is, when its sleep ends, when its function started, what its
\* function rejected with.
Job(caller, after) ==
    [caller |-> caller, after |-> after, st |-> "queued", wake |-> 0, at |-> 0, err |-> "none"]

Settled(j) == lJobs[j].st \in {"ok", "failed"}

\* this.chain as call j found it has been fulfilled: a chain that carries
\* the rejection of a call's function.
ChainFulfilled(j) == IF lJobs[j].after = 0 THEN TRUE ELSE lJobs[lJobs[j].after].st = "ok"

\* this.chain as call j found it has settled (the chain starts resolved).
ChainSettled(j) == IF lJobs[j].after = 0 THEN TRUE ELSE Settled(lJobs[j].after)

\* this.chain after schedule: the chain as it was, left in place.
ChainKept(chain, id) == chain

\* this.chain after schedule: result.then(() => undefined, () => undefined).
ChainAfter(chain, id) == id

\* Clock steps of the model.
TickSteps == {10000}

\* Date.now() when the limiter is constructed.
StartMs == 100 * 1000

NewCall == [st |-> "idle", attempt |-> 0, job |-> 0, err |-> "none"]

LimInit == /\ lCfg \in LimConfigs
           /\ lNow = StartMs
           /\ lTicks = 0
           /\ lLim = NewLimiter(lCfg, StartMs)
           /\ lChain = 0
           /\ lJobs = <<>>
           /\ lStarted = <<>>
           /\ lCalls = [c \in Callers |-> NewCall]
           /\ DecIdle
           /\ ExIdle
           /\ ScanIdle
           /\ AtIdle
           /\ FeeIdle
           /\ QcIdle
           /\ TrigIdle
           /\ RotIdle
           /\ SchedIdle
           /\ LogIdle
           /\ TipIdle
           /\ SetupIdle
           /\ BrkIdle
           /\ GateIdle
           /\ OoGateIdle
           /\ OcIdle

Sleepers == {j \in 1..Len(lJobs) : lJobs[j].st = "sleeping" /\ lJobs[j].wake > lNow}

\* Time passes up to the next timer of a sleeping run.
LimTimerDue ==
    /\ Sleepers # {}
    /\ \E j \in Sleepers :
         /\ \A k \in Sleepers : lJobs[j].wake <= lJobs[k].wake
         /\ lNow' = lJobs[j].wake
    /\ UNCHANGED <<lCfg, lTicks, lLim, lChain, lJobs, lStarted, lCalls, othersLim>>

\* limiter.schedule(fn) by caller c: the run is chained behind this.chain,
\* and this.chain becomes the new call.
Schedule(c, calls) ==
    LET id == Len(lJobs) + 1
    IN /\ lJobs' = Append(lJobs, Job(c, lChain))
       /\ lChain' = ChainAfter(lChain, id)
       /\ lCalls' = [calls EXCEPT ![c].st = "awaiting", ![c].job = id]

\* A caller enters call, at once or a clock step later: attempt 0 is
\* scheduled.
LimCallStart(c) ==
    /\ lCalls[c].st = "idle"
    /\ \E d \in {0} \cup (IF lTicks < MaxLimTicks THEN TickSteps ELSE {}) :
         /\ lNow' = lNow + d
         /\ lTicks' = IF d = 0 THEN lTicks ELSE lTicks + 1
    /\ Schedule(c, lCalls)
    /\ UNCHANGED <<lCfg, lLim, lStarted, othersLim>>

\* The outcome of a pass of run for call j: the function starts, or the
\* run sleeps.
AfterTry(j, try) ==
    /\ lLim' = try.lim
    /\ IF try.run
       THEN /\ lJobs' = [lJobs EXCEPT ![j].st = "running", ![j].at = lNow]
            /\ lStarted' = Append(lStarted, j)
       ELSE /\ lJobs' = [lJobs EXCEPT ![j].st = "sleeping", ![j].wake = try.wake]
            /\ UNCHANGED lStarted

\* The chain reaches call j: its run begins.
LimJobRun(j) ==
    /\ j \in 1..Len(lJobs)
    /\ lJobs[j].st = "queued"
    /\ ChainSettled(j)
    /\ IF lCfg.kind = "minInterval"
       THEN AfterTry(j, MinIntervalTry(lLim, lCfg.minIntervalMs, lNow))
       ELSE AfterTry(j, AdaptiveTry([lLim EXCEPT !.totalCalls = @ + 1], lCfg.bucket, lNow))
    /\ UNCHANGED <<lCfg, lNow, lTicks, lChain, lCalls, othersLim>>

\* The sleep of run j ends: the minimum-interval run starts the function,
\* the token bucket's run goes round its loop.
LimJobWake(j) ==
    /\ j \in 1..Len(lJobs)
    /\ lJobs[j].st = "sleeping"
    /\ lNow >= lJobs[j].wake
    /\ IF lCfg.kind = "minInterval"
       THEN AfterTry(j, [lim |-> [lLim EXCEPT !.lastRunAtMs = lNow], run |-> TRUE, wake |-> 0])
       ELSE AfterTry(j, AdaptiveTry(lLim, lCfg.bucket, lNow))
    /\ UNCHANGED <<lCfg, lNow, lTicks, lChain, lCalls, othersLim>>

\* The function of call j settles.
LimJobSettle(j) ==
    /\ j \in 1..Len(lJobs)
    /\ lJobs[j].st = "running"
    /\ \E outcome \in {"ok"} \cup Errors :
         lJobs' = [lJobs EXCEPT ![j].st = (IF outcome = "ok" THEN "ok" ELSE "failed"),
                                ![j].err = (IF outcome = "ok" THEN "none" ELSE outcome)]
    /\ UNCHANGED <<lCfg, lNow, lTicks, lLim, lChain, lStarted, lCalls, othersLim>>

\* canRetry of call, without the limit on attempts.
canRetryAlways(error, attempt, maxAttempts) == isRetryableError(error)

canRetry(error, attempt, maxAttempts) ==
    isRetryableError(error) /\ attempt + 1 < maxAttempts

\* The caller resumes after its await. Through the wrapper: return, rethrow,
\* or back off and go round. A client of the token bucket awaits schedule
\* itself and gets its result or its rejection.
LimCallResume(c) ==
    /\ lCalls[c].st = "awaiting"
    /\ Settled(lCalls[c].job)
    /\ LET job == lJobs[lCalls[c].job]
           attempt == lCalls[c].attempt
       IN IF job.st = "ok"
          THEN /\ lCalls' = [lCalls EXCEPT ![c].st = "returned"]
               /\ UNCHANGED <<lLim, lJobs, lChain>>
          ELSE IF lCfg.kind = "adaptive"
                  \/ ~canRetry(job.err, attempt, lCfg.retry.maxAttempts)
          THEN /\ lCalls' = [lCalls EXCEPT ![c].st = "threw", ![c].err = job.err]
               /\ UNCHANGED <<lLim, lJobs, lChain>>
          ELSE \E jitter \in {0, JitterMax(Min(lCfg.retry.maxDelayMs,
                                               lCfg.retry.baseDelayMs * (2 ^ attempt)))} :
                 /\ lLim' = cooldown(lLim,
                                     computeBackoffMs(attempt, lCfg.retry.baseDelayMs,
                                                      lCfg.retry.maxDelayMs, jitter),
                                     lNow)
                 /\ Schedule(c, [lCalls EXCEPT ![c].attempt = attempt + 1])
    /\ UNCHANGED <<lCfg, lNow, lTicks, lStarted, othersLim>>

\* The token bucket's client c caught the rejection of its call: note429.
LimNote429(c) ==
    /\ lCfg.kind = "adaptive"
    /\ lCalls[c].st = "threw"
    /\ lLim.total429 < Max429
    /\ lLim' = note429(lLim, lCfg.bucket, lNow)
    /\ lCalls' = [lCalls EXCEPT ![c].st = "noted"]
    /\ UNCHANGED <<lCfg, lNow, lTicks, lChain, lJobs, lStarted, othersLim>>

\* The token bucket's client c got the result of its call: noteSuccess.
LimNoteSuccess(c) ==
    /\ lCfg.kind = "adaptive"
    /\ lCalls[c].st = "returned"
    /\ lLim' = noteSuccess(lLim, lCfg.bucket, lNow)
    /\ lCalls' = [lCalls EXCEPT ![c].st = "noted"]
    /\ UNCHANGED <<lCfg, lNow, lTicks, lChain, lJobs, lStarted, othersLim>>

MaxJobs == Cardinality(Callers) * Max(1, MaxAttemptsCfg)

LimNext ==
    \/ LimTimerDue
    \/ \E c \in Callers : LimCallStart(c)
    \/ \E j \in 1..MaxJobs : LimJobRun(j)
    \/ \E j \in 1..MaxJobs : LimJobWake(j)
    \/ \E j \in 1..MaxJobs : LimJobSettle(j)
    \/ \E c \in Callers : LimCallResume(c)
    \/ \E c \in Callers : LimNote429(c)
    \/ \E c \in Callers : LimNoteSuccess(c)

SpecLimiter == LimInit /\ [][LimNext]_vars

\* The event loop runs every callback that is ready and every timer that is
\* due, and the wrapped function (an HTTP request) settles.
LimFairness ==
    /\ WF_vars(LimTimerDue)
    /\ \A j \in 1..MaxJobs : WF_vars(LimJobRun(j))
    /\ \A j \in 1..MaxJobs : WF_vars(LimJobWake(j))
    /\ \A j \in 1..MaxJobs : WF_vars(LimJobSettle(j))
    /\ \A c \in Callers : WF_vars(LimCallResume(c))

SpecLimiterFair == LimInit /\ [][LimNext]_vars /\ LimFairness

\* ------------------------------------------------------------------------
\* The token bucket under its clients' free calls (SpecBucket)
\* ------------------------------------------------------------------------

\* The arguments of cooldown(ms) the clients pass.
CooldownArgs == {-1, 300}

\* A token bucket, nothing handed to it yet.
BucketInit == LimInit /\ lCfg.kind = "adaptive"

\* limiter.cooldown(ms), by any client at any instant up to the horizon.
BucketCooldown ==
    /\ \E ms \in CooldownArgs :
         /\ lNow + ms <= StartMs + MaxHorizonMs
         /\ lLim' = cooldown(lLim, ms, lNow)
    /\ UNCHANGED <<lCfg, lNow, lTicks, lChain, lJobs, lStarted, lCalls, othersLim>>

\* Client c, its call's outcome noted or its rejection left unnoted, is ready
\* to make the next.
BucketCallAgain(c) ==
    /\ lCalls[c].st \in {"noted", "threw"}
    /\ Len(lJobs) < MaxBucketCalls
    /\ lCalls' = [lCalls EXCEPT ![c] = NewCall]
    /\ UNCHANGED <<lCfg, lNow, lTicks, lLim, lChain, lJobs, lStarted, othersLim>>

\* The function of call j settles: the request is answered, or refused with
\* status 429.
BucketJobSettle(j) ==
    /\ j \in 1..Len(lJobs)
    /\ lJobs[j].st = "running"
    /\ \E outcome \in {"ok", "HTTP 429"} :
         lJobs' = [lJobs EXCEPT ![j].st = (IF outcome = "ok" THEN "ok" ELSE "failed"),
                                ![j].err = (IF outcome = "ok" THEN "none" ELSE outcome)]
    /\ UNCHANGED <<lCfg, lNow, lTicks, lLim, lChain, lStarted, lCalls, othersLim>>

BucketNext ==
    \/ LimTimerDue
    \/ \E c \in Callers : LimCallStart(c)
    \/ \E j \in 1..MaxJobs : LimJobRun(j)
    \/ \E j \in 1..MaxJobs : LimJobWake(j)
    \/ \E j \in 1..MaxJobs : BucketJobSettle(j)
    \/ \E c \in Callers : LimCallResume(c)
    \/ \E c \in Callers : BucketCallAgain(c)
    \/ \E c \in Callers : LimNote429(c)
    \/ \E c \in Callers : LimNoteSuccess(c)
    \/ BucketCooldown

SpecBucket == BucketInit /\ [][BucketNext]_vars

\* Either limiter under the same calls. The event loop runs every callback
\* that is ready and every timer that is due, and every started function
\* settles; the clients are free to call or not.
ScheduleFairness ==
    /\ WF_vars(LimTimerDue)
    /\ \A j \in 1..MaxJobs : WF_vars(LimJobRun(j))
    /\ \A j \in 1..MaxJobs : WF_vars(LimJobWake(j))
    /\ \A j \in 1..MaxJobs : WF_vars(BucketJobSettle(j))

\* The calls of schedule and cooldown alone.
ScheduleNext ==
    \/ LimTimerDue
    \/ \E c \in Callers : LimCallStart(c)
    \/ \E j \in 1..MaxJobs : LimJobRun(j)
    \/ \E j \in 1..MaxJobs : LimJobWake(j)
    \/ \E j \in 1..MaxJobs : BucketJobSettle(j)
    \/ \E c \in Callers : LimCallResume(c)
    \/ \E c \in Callers : BucketCallAgain(c)
    \/ BucketCooldown

\* The configurations with which every wait of schedule occurs: the retry
\* wrapper's limiter with a retry and a backoff, the token bucket with one
\* token at one request per second.
ScheduleConfigs ==
    {cfg \in LimConfigs :
        IF cfg.kind = "minInterval"
        THEN cfg.retry.maxAttempts = MaxAttemptsCfg /\ cfg.retry.baseDelayMs = 400
        ELSE cfg.bucket.baseRps = RpsOf(20) /\ cfg.bucket.burst = 1}

ScheduleInit == LimInit /\ lCfg \in ScheduleConfigs

SpecScheduleFair == ScheduleInit /\ [][ScheduleNext]_vars /\ ScheduleFairness

\* ------------------------------------------------------------------------
\* Atomic builder (buildAtomicLoopTransaction)
\* ------------------------------------------------------------------------

\* Buffer.from(text, 'base64'): the bytes, written as their canonical base64
\* text ("AR==" carries the same byte as "AQ==", its spare bits are dropped).
Base64Decode(text) == IF text = "AR==" THEN "AQ==" ELSE text

\* A JupiterInstruction.
JupIx(programId, accounts, data) ==
    [programId |-> programId, accounts |-> accounts, data |-> data]

Account(pubkey, isWritable) ==
    [pubkey |-> pubkey, isSigner |-> pubkey = "wallet", isWritable |-> isWritable]

\* Setup instructions of a response: the same instruction, the same with
\* its accounts in the other order, the same with its data spelt otherwise.
SetupIxs ==
    {JupIx("AToken", <<Account("wallet", TRUE), Account("ata", TRUE)>>, "AQ=="),
     JupIx("AToken", <<Account("ata", TRUE), Account("wallet", TRUE)>>, "AQ=="),
     JupIx("AToken", <<Account("wallet", TRUE), Account("ata", TRUE)>>, "AR==")}

CleanupIxs ==
    {JupIx("Token", <<Account("ata", TRUE), Account("wallet", TRUE)>>, "CQ=="),
     JupIx("Token", <<Account("wallet", TRUE), Account("ata", TRUE)>>, "CQ==")}

SeqsUpTo(S, n) == UNION {[1..k -> S] : k \in 0..n}

\* The SwapInstructionsResponse of leg number leg.
LegResponses(leg, withBudget) ==
    [otherInstructions :
         {<<>>, <<JupIx("Memo", <<>>, IF leg = 1 THEN "bGVnMQ==" ELSE "bGVnMg==")>>},
     computeBudgetInstructions :
         {IF withBudget THEN <<JupIx("ComputeBudget", <<>>, "AkANAwA=")>> ELSE <<>>},
     setupInstructions : SeqsUpTo(SetupIxs, MaxSetup),
     swapInstruction :
         {JupIx("Jupiter", <<Account("wallet", TRUE)>>, IF leg = 1 THEN "c3dhcDE=" ELSE "c3dhcDI=")},
     cleanupInstruction : CleanupIxs \cup {NoValue}]

\* The parameters of a build with the responses of buildSwapInstructions.
AtomicParams ==
    UNION {[i1 : LegResponses(1, withBudget),
            i2 : LegResponses(2, withBudget),
            computeUnitLimit : {1400000},
            computeUnitPriceMicroLamports : 0..1,
            jitoTipLamports : 0..MaxTipLamports,
            jitoTipAccount : {[pubkey |-> "tip"], NoValue}] : withBudget \in BOOLEAN}

toTxInstruction(ix) ==
    [programId |-> ix.programId, keys |-> ix.accounts, data |-> Base64Decode(ix.data)]

\* ixKey: programId, base64 of the data, and the accounts as
\* pubkey:isSigner:isWritable in the order the instruction lists them.
ixKey(ix) == <<ix.programId, ix.data, ix.keys>>

\* uniqBy without its seen set.
uniqByKeepAll(items) == items

\* uniqBy(items, ixKey).
uniqBy(items) ==
    LET RECURSIVE loop(_, _, _)
        loop(i, seen, out) ==
            IF i > Len(items) THEN out
            ELSE IF ixKey(items[i]) \in seen THEN loop(i + 1, seen, out)
            ELSE loop(i + 1, seen \cup {ixKey(items[i])}, Append(out, items[i]))
    IN loop(1, {}, <<>>)

collectIxBundle(res) ==
    [other |-> [i \in DOMAIN res.otherInstructions |-> toTxInstruction(res.otherInstructions[i])],
     computeBudget |-> [i \in DOMAIN res.computeBudgetInstructions |->
                          toTxInstruction(res.computeBudgetInstructions[i])],
     setup |-> [i \in DOMAIN res.setupInstructions |-> toTxInstruction(res.setupInstructions[i])],
     swap |-> toTxInstruction(res.swapInstruction),
     cleanup |-> IF res.cleanupInstruction = NoValue THEN NoValue
                 ELSE toTxInstruction(res.cleanupInstruction)]

\* The instruction the program makes itself (ComputeBudgetProgram,
\* SystemProgram.transfer).
OwnIx(programId, keys, kind, value) ==
    [programId |-> programId, keys |-> keys, data |-> kind, value |-> value]

\* The instruction list with the tip ahead of the cleanup.
AtomicInstructionsTipFirst(computeBudget, other, setup, swap1, swap2, cleanup, tip) ==
    computeBudget \o other \o setup \o <<swap1, swap2>> \o tip \o cleanup

\* The instruction list of the transaction.
AtomicInstructions(computeBudget, other, setup, swap1, swap2, cleanup, tip) ==
    computeBudget \o other \o setup \o <<swap1, swap2>> \o cleanup \o tip

\* buildAtomicLoopTransaction up to its instruction list; setup and cleanup
\* are its locals of these names.
buildAtomicLoopTransaction(params) ==
    LET b1 == collectIxBundle(params.i1)
        b2 == collectIxBundle(params.i2)
        computeBudget ==
            <<OwnIx("ComputeBudget", <<>>, "SetComputeUnitLimit", params.computeUnitLimit)>>
            \o (IF params.computeUnitPriceMicroLamports > 0
                THEN <<OwnIx("ComputeBudget", <<>>, "SetComputeUnitPrice",
                             params.computeUnitPriceMicroLamports)>>
                ELSE <<>>)
        other == b1.other
        setup == uniqBy(b1.setup \o b2.setup)
        cleanup == uniqBy(SelectSeq(<<b1.cleanup, b2.cleanup>>, LAMBDA x : x # NoValue))
        tip == IF params.jitoTipLamports > 0 /\ params.jitoTipAccount # NoValue
               THEN <<OwnIx("System",
                            <<Account("wallet", TRUE), Account(params.jitoTipAccount.pubkey, TRUE)>>,
                            "Transfer", params.jitoTipLamports)>>
               ELSE <<>>
    IN [setup |-> setup,
        cleanup |-> cleanup,
        instructions |-> AtomicInstructions(computeBudget, other, setup, b1.swap, b2.swap,
                                            cleanup, tip)]

AtInit == /\ bIn = NoValue
          /\ bOut = NoValue
          /\ DecIdle
          /\ ExIdle
          /\ ScanIdle
          /\ LimIdle
          /\ FeeIdle
          /\ QcIdle
          /\ TrigIdle
          /\ RotIdle
          /\ SchedIdle
          /\ LogIdle
          /\ TipIdle
          /\ SetupIdle
          /\ BrkIdle
          /\ GateIdle
          /\ OoGateIdle
          /\ OcIdle

\* One build.
AtBuild ==
    /\ bIn = NoValue
    /\ \E params \in AtomicParams :
         /\ bIn' = params
         /\ bOut' = buildAtomicLoopTransaction(params)
    /\ UNCHANGED othersAt

SpecAtomic == AtInit /\ [][AtBuild]_vars

\* ------------------------------------------------------------------------
\* Fee conversion (convertFeeLamportsToAAtomic) of the candidates of one pair
\* ------------------------------------------------------------------------

oneSolLamports == 1000000000

ceilDiv(n, d) == IF n <= 0 THEN 0 ELSE (n + d - 1) \div d

\* The lamport fee estimates of candidates (estimateFeeLamports: they differ
\* with the tip and the number of transactions and signatures).
FeeEstimates == {ToDecString(n) : n \in {0, 1, MaxFeeLamports}}

\* outAmount of the reference quote of one SOL (-1: the quote fails).
ReferenceQuotes == {1, 127000000, -1}

FeeInit == /\ fCfg \in [aMintIsSol : BOOLEAN, cacheTtlMs : {0, 20000}]
           /\ fNow = 0
           /\ fCache = NoValue
           /\ fUsed = NoValue
           /\ DecIdle
           /\ ExIdle
           /\ ScanIdle
           /\ LimIdle
           /\ AtIdle
           /\ QcIdle
           /\ TrigIdle
           /\ RotIdle
           /\ SchedIdle
           /\ LogIdle
           /\ TipIdle
           /\ SetupIdle
           /\ BrkIdle
           /\ GateIdle
           /\ OoGateIdle
           /\ OcIdle

\* Time passes between candidates and scans.
FeeTick ==
    /\ fNow < MaxFeeTicks * 10000
    /\ fNow' = fNow + 10000
    /\ UNCHANGED <<fCfg, fCache, fUsed, othersFee>>

\* convertFeeLamportsToAAtomic for a candidate whose estimate is feeLamports,
\* and the decision that is given its result. The cache entry holds the
\* promise of the converted fee (value); outPerSol records the quote that
\* promise was made from.
FeeConvert ==
    \E feeLamports \in FeeEstimates, q \in ReferenceQuotes :
      LET cacheTtlMs == IF fCfg.cacheTtlMs >= 10000 THEN fCfg.cacheTtlMs ELSE 10000
          hit == fCache # NoValue /\ fCache.expiresAt > fNow
          feeInA == ToDecString(ceilDiv(BigIntOf(feeLamports) * q, oneSolLamports))
          Use(fee, outPerSol) ==
              fUsed' = [feeLamports |-> feeLamports, feeInA |-> fee, outPerSol |-> outPerSol]
      IN /\ IF feeLamports = ToDecString(0)
            THEN Use(ToDecString(0), 0) /\ UNCHANGED fCache
            ELSE IF fCfg.aMintIsSol
            THEN Use(feeLamports, 0) /\ UNCHANGED fCache
            ELSE IF hit
            THEN Use(fCache.value, fCache.outPerSol) /\ UNCHANGED fCache
            ELSE IF q < 0
            THEN fCache' = NoValue /\ fUsed' = NoValue
            ELSE /\ fCache' = [expiresAt |-> fNow + cacheTtlMs, value |-> feeInA,
                               outPerSol |-> q]
                 /\ Use(feeInA, q)
         /\ UNCHANGED <<fCfg, fNow, othersFee>>

FeeNext == FeeTick \/ FeeConvert

SpecFee == FeeInit /\ [][FeeNext]_vars

\* ------------------------------------------------------------------------
\* Quote cache (withJupiterQuoteCache) on the swap-v1 quote client
\* ------------------------------------------------------------------------

QuoteCallers == {"s1", "s2", "s3"}

\* Quote parameters: the same request with its include list in two orders,
\* and another amount.
QuoteParams ==
    {[route |-> "A:B:1000:50", includeDexes |-> <<"Orca", "Raydium">>, excludeDexes |-> <<>>],
     [route |-> "A:B:1000:50", includeDexes |-> <<"Raydium", "Orca">>, excludeDexes |-> <<>>],
     [route |-> "A:B:2000:50", includeDexes |-> <<>>, excludeDexes |-> <<"Orca">>]}

\* The cache key: makeKey(params) and the include and exclude lists sorted
\* and joined (a sorted list of distinct names is given by its set).
QuoteKey(params) ==
    <<params.route,
      {params.includeDexes[i] : i \in DOMAIN params.includeDexes},
      {params.excludeDexes[i] : i \in DOMAIN params.excludeDexes}>>

QuoteKeys == {QuoteKey(p) : p \in QuoteParams}

QcInit == /\ qTtl \in 1..MaxQuoteTtl
          /\ qNow = 0
          /\ qCache = [k \in QuoteKeys |-> NoValue]
          /\ qReqs = <<>>
          /\ qCalls = [c \in QuoteCallers |-> [st |-> "idle", req |-> 0, issuer |-> FALSE]]
          /\ DecIdle
          /\ ExIdle
          /\ ScanIdle
          /\ LimIdle
          /\ AtIdle
          /\ FeeIdle
          /\ TrigIdle
          /\ RotIdle
          /\ SchedIdle
          /\ LogIdle
          /\ TipIdle
          /\ SetupIdle
          /\ BrkIdle
          /\ GateIdle
          /\ OoGateIdle
          /\ OcIdle

QcTick ==
    /\ qNow < MaxQuoteClock
    /\ qNow' = qNow + 1
    /\ UNCHANGED <<qTtl, qCache, qReqs, qCalls, othersQc>>

\* The hit test of the cached quoteExactIn.
QuoteCacheHit(entry, now) ==
    IF entry = NoValue THEN FALSE ELSE entry.expiresAt > now

\* A caller enters the cached quoteExactIn: it awaits the promise of a live
\* entry, or issues the upstream quote, stores its promise and awaits it.
QcCall(c) ==
    /\ qCalls[c].st = "idle"
    /\ \E params \in QuoteParams :
         LET key == QuoteKey(params)
             id == Len(qReqs) + 1
         IN IF QuoteCacheHit(qCache[key], qNow)
            THEN /\ qCalls' = [qCalls EXCEPT ![c] = [st |-> "awaiting", req |-> qCache[key].value,
                                                     issuer |-> FALSE]]
                 /\ UNCHANGED <<qCache, qReqs>>
            ELSE /\ qReqs' = Append(qReqs, [key |-> key, st |-> "flight"])
                 /\ qCache' = [qCache EXCEPT ![key] = [expiresAt |-> qNow + qTtl, value |-> id]]
                 /\ qCalls' = [qCalls EXCEPT ![c] = [st |-> "awaiting", req |-> id,
                                                     issuer |-> TRUE]]
    /\ UNCHANGED <<qTtl, qNow, othersQc>>

\* An upstream quote settles.
QcSettle ==
    /\ \E r \in DOMAIN qReqs, outcome \in {"ok", "failed"} :
         /\ qReqs[r].st = "flight"
         /\ qReqs' = [qReqs EXCEPT ![r].st = outcome]
    /\ UNCHANGED <<qTtl, qNow, qCache, qCalls, othersQc>>

\* A caller resumes: it returns the quote, or rethrows; the caller that
\* issued the request deletes the key first.
QcResume(c) ==
    /\ qCalls[c].st = "awaiting"
    /\ qReqs[qCalls[c].req].st # "flight"
    /\ IF qReqs[qCalls[c].req].st = "ok"
       THEN /\ qCalls' = [qCalls EXCEPT ![c].st = "returned"]
            /\ UNCHANGED qCache
       ELSE /\ qCalls' = [qCalls EXCEPT ![c].st = "threw"]
            /\ IF qCalls[c].issuer
               THEN qCache' = [qCache EXCEPT ![qReqs[qCalls[c].req].key] = NoValue]
               ELSE UNCHANGED qCache
    /\ UNCHANGED <<qTtl, qNow, qReqs, othersQc>>

QcNext ==
    \/ QcTick
    \/ \E c \in QuoteCallers : QcCall(c)
    \/ QcSettle
    \/ \E c \in QuoteCallers : QcResume(c)

SpecQuoteCache == QcInit /\ [][QcNext]_vars

\* ------------------------------------------------------------------------
\* The vwap and bollinger trigger windows of scanAndMaybeExecute
\* (SpecTrigger).  A window observes for triggerObserveMs, then either
\* skips or watches for triggerExecuteMs; every tick runs one scan.  The
\* EMA is kept as a multiple of 1/EmaDen and the variance as a multiple of
\* 1/VarDen, which is exact for alpha = 1/2 and for alpha = 1; a comparison
\* with a band ema + s * sqrt(var) is made on the squares.  Log events are
\* not modelled, the trigger_fire of a window is its result.
\* ------------------------------------------------------------------------
MaxObserveTicks == 3

MaxExecuteTicks == 4

MaxProfitPpm == 3

PpmUnit == 1000000

EmaDen == 2 ^ MaxObserveTicks

VarDen == 2 * EmaDen * EmaDen

TruncDiv(a, b) == IF a >= 0 THEN a \div b ELSE 0 - ((0 - a) \div b)

Undefined == [def |-> FALSE, v |-> 0]

Num(n) == [def |-> TRUE, v |-> n]

Candidate(amountA, profit, minProfit) ==
    [amountA |-> amountA, conservativeProfit |-> profit,
     profitable |-> profit >= minProfit]

candidateConservativeProfitPpm(candidate) ==
    IF candidate.amountA <= 0 THEN Undefined
    ELSE Num(TruncDiv(candidate.conservativeProfit * PpmUnit, candidate.amountA))

RECURSIVE SumOver(_, _, _)
SumOver(candidates, i, field) ==
    IF i > Len(candidates) THEN 0
    ELSE (IF candidates[i].amountA <= 0 THEN 0 ELSE candidates[i][field])
         + SumOver(candidates, i + 1, field)

scanConservativeProfitVwapPpm(scan) ==
    LET sumProfit == SumOver(scan.candidates, 1, "conservativeProfit")
        sumAmount == SumOver(scan.candidates, 1, "amountA")
    IN  IF sumAmount <= 0 THEN Undefined
        ELSE Num(TruncDiv(sumProfit * PpmUnit, sumAmount))

pickBestCandidate(candidates) ==
    LET RECURSIVE loop(_, _)
        loop(i, best) ==
            IF i > Len(candidates) THEN best
            ELSE IF best = NoValue THEN loop(i + 1, candidates[i])
            ELSE IF candidates[i].conservativeProfit > best.conservativeProfit
                 THEN loop(i + 1, candidates[i])
                 ELSE loop(i + 1, best)
    IN  loop(1, NoValue)

ScanOf(candidates) == [candidates |-> candidates, best |-> pickBestCandidate(candidates)]

\* What a scan of the pair can return: no candidate, one candidate (of any
\* profit, or with a zero amount), or two candidates of different sizes.
TrigScans ==
    LET one == {Candidate(PpmUnit, p, 1) : p \in (0 - 1)..MaxProfitPpm}
    IN  {ScanOf(<<>>), ScanOf(<<Candidate(0, 2, 1)>>)}
        \cup {ScanOf(<<c>>) : c \in one}
        \cup {ScanOf(<<Candidate(PpmUnit, MaxProfitPpm, 1), Candidate(2 * PpmUnit, 0 - 1, 1)>>)}

\* ppm >= ema + sigma * sqrt(var), with ema = emaQ / EmaDen and
\* var = varQ / VarDen.
AtLeastBand(ppm, emaQ, varQ, sigma) ==
    LET d == ppm * EmaDen - emaQ
    IN  d >= 0 /\ VarDen * d * d >= sigma * sigma * varQ * EmaDen * EmaDen

\* One EMA / EWM variance step; alpha is alphaHalves / 2.
EmaStep(ema, var, signalPpm, alphaHalves) ==
    IF ~ema.def THEN [ema |-> Num(signalPpm * EmaDen), var |-> 0]
    ELSE LET prev == ema.v
             next == prev + (alphaHalves * (signalPpm * EmaDen - prev)) \div 2
             residual == signalPpm * EmaDen - next
         IN  [ema |-> Num(next),
              var |-> ((2 - alphaHalves) * var) \div 2
                      + (alphaHalves * residual * residual * (VarDen \div (EmaDen * EmaDen))) \div 2]

\* The band factors are read by the bollinger strategy only.
TrigConfigs ==
    {[triggerStrategy |-> st.strategy,
      triggerObserveMs |-> MaxObserveTicks,
      triggerObserveIntervalMs |-> 1,
      triggerExecuteMs |-> MaxExecuteTicks,
      triggerExecuteIntervalMs |-> 1,
      triggerBollingerK |-> st.k,
      alphaHalves |-> 1,
      triggerBollingerMinSamples |-> m,
      triggerMomentumLookback |-> l,
      trailDropPpm |-> d,
      triggerEmergencySigma |-> st.sigma] :
        st \in {[strategy |-> "vwap", k |-> 0, sigma |-> 0],
                [strategy |-> "bollinger", k |-> 1, sigma |-> 0],
                [strategy |-> "bollinger", k |-> 1, sigma |-> 2]},
        m \in {0, MaxObserveTicks}, l \in {1, 2}, d \in {0, 2}}

minSamplesOf(cfg) == Max(2, cfg.triggerBollingerMinSamples)

lookbackOf(cfg) == Max(1, cfg.triggerMomentumLookback)

dropPpmOf(cfg) == Max(0, cfg.trailDropPpm)

emergencySigmaOf(cfg) ==
    IF cfg.triggerStrategy = "bollinger" THEN Max(0, Min(10, cfg.triggerEmergencySigma)) ELSE 0

kOf(cfg) == IF cfg.triggerStrategy = "bollinger" THEN Max(0, Min(10, cfg.triggerBollingerK)) ELSE 0

ScanMs == {0, 2}

Fired == {"trailing-stop", "emergency-sigma"}

NoTick == [phase |-> "none", afterStop |-> FALSE, armed |-> FALSE, hot |-> FALSE]

TrigInit == /\ tCfg \in TrigConfigs
            /\ tNow = 0
            /\ tStart = 0
            /\ tPhase = "observe"
            /\ tEma = Undefined
            /\ tVar = 0
            /\ tSamples = 0
            /\ tArmed = FALSE
            /\ tPeak = 0
            /\ tDecline = 0
            /\ tRes = ""
            /\ tStop = FALSE
            /\ tRun = 0
            /\ tSignals = 0
            /\ tLast = NoTick
            /\ DecIdle
            /\ ExIdle
            /\ ScanIdle
            /\ LimIdle
            /\ AtIdle
            /\ FeeIdle
            /\ QcIdle
            /\ RotIdle
            /\ SchedIdle
            /\ LogIdle
            /\ TipIdle
            /\ SetupIdle
            /\ BrkIdle
            /\ GateIdle
            /\ OoGateIdle
            /\ OcIdle

\* main's requestStop: a SIGINT or SIGTERM sets the flag.
TrigStop ==
    /\ tPhase \in {"observe", "execute"}
    /\ ~tStop
    /\ tStop' = TRUE
    /\ UNCHANGED <<tCfg, tNow, tStart, tPhase, tEma, tVar, tSamples, tArmed, tPeak,
                   tDecline, tRes, tRun, tSignals, tLast>>
    /\ UNCHANGED othersTrig

\* One pass of the observe loop: the scan, the statistics, the emergency
\* fire of bollinger, the sleep to the next tick.
TrigObserveTick ==
    /\ tPhase = "observe"
    /\ tNow - tStart < tCfg.triggerObserveMs
    /\ \E scan \in TrigScans, elapsedMs \in ScanMs :
         LET signalPpm == scanConservativeProfitVwapPpm(scan)
             bestPpm == IF scan.best = NoValue THEN Undefined
                        ELSE candidateConservativeProfitPpm(scan.best)
             sampled == scan.best # NoValue /\ signalPpm.def
             step == IF sampled THEN EmaStep(tEma, tVar, signalPpm.v, tCfg.alphaHalves)
                     ELSE [ema |-> tEma, var |-> tVar]
             samples == IF sampled THEN tSamples + 1 ELSE tSamples
             sigma == emergencySigmaOf(tCfg)
             hot == /\ sampled
                    /\ sigma > 0
                    /\ bestPpm.def
                    /\ AtLeastBand(bestPpm.v, step.ema.v, step.var, sigma)
                    /\ scan.best.profitable
             shouldEmergencyFire == hot /\ samples >= minSamplesOf(tCfg)
         IN  /\ tEma' = step.ema
             /\ tVar' = step.var
             /\ tSamples' = samples
             /\ tSignals' = IF signalPpm.def THEN tSignals + 1 ELSE tSignals
             /\ tLast' = [phase |-> "observe", afterStop |-> tStop, armed |-> FALSE, hot |-> hot]
             /\ IF shouldEmergencyFire
                THEN /\ tPhase' = "done"
                     /\ tRes' = "emergency-sigma"
                     /\ tNow' = tNow + elapsedMs
                ELSE /\ tNow' = tNow + Max(elapsedMs, tCfg.triggerObserveIntervalMs)
                     /\ UNCHANGED <<tPhase, tRes>>
    /\ UNCHANGED <<tCfg, tStart, tArmed, tPeak, tDecline, tStop, tRun>>
    /\ UNCHANGED othersTrig

InsufficientSamplesEmaOnly(ema, samples, minSamples) == ~ema.def

InsufficientSamples(ema, samples, minSamples) == ~ema.def \/ samples < minSamples

\* The observe loop is over: skip, or start the execute phase.
TrigObserveEnd ==
    /\ tPhase = "observe"
    /\ ~(tNow - tStart < tCfg.triggerObserveMs)
    /\ IF InsufficientSamples(tEma, tSamples, minSamplesOf(tCfg))
       THEN /\ tPhase' = "done"
            /\ tRes' = "insufficient-samples"
            /\ UNCHANGED tStart
       ELSE /\ tPhase' = "execute"
            /\ tStart' = tNow
            /\ UNCHANGED tRes
    /\ tArmed' = FALSE
    /\ tPeak' = 0
    /\ tDecline' = 0
    /\ UNCHANGED <<tCfg, tNow, tEma, tVar, tSamples, tStop, tRun, tSignals, tLast>>
    /\ UNCHANGED othersTrig

\* One pass of the execute loop: the scan, arm / peak / decline, the
\* trailing-stop fire, the emergency fire of bollinger, the sleep.
TrigExecuteTick ==
    /\ tPhase = "execute"
    /\ tNow - tStart < tCfg.triggerExecuteMs
    /\ \E scan \in TrigScans, elapsedMs \in ScanMs :
         LET best == scan.best
             ppm == IF best = NoValue THEN Undefined ELSE candidateConservativeProfitPpm(best)
             usable == best # NoValue /\ ppm.def /\ best.profitable
             sigma == emergencySigmaOf(tCfg)
             hot == usable /\ sigma > 0 /\ AtLeastBand(ppm.v, tEma.v, tVar, sigma)
             decline == usable /\ tArmed /\ ppm.v < tPeak /\ tPeak - ppm.v >= dropPpmOf(tCfg)
             rising == usable /\ tArmed /\ ppm.v > tPeak
             declineTicks == IF decline THEN tDecline + 1 ELSE tDecline
             trailingStop == decline /\ declineTicks >= lookbackOf(tCfg)
             emergency == usable /\ tArmed /\ ~trailingStop /\ hot
             fire == IF trailingStop THEN "trailing-stop"
                     ELSE IF emergency THEN "emergency-sigma" ELSE ""
         IN  /\ tLast' = [phase |-> "execute", afterStop |-> tStop, armed |-> tArmed, hot |-> hot]
             /\ tRun' = IF decline THEN tRun + 1 ELSE 0
             /\ IF ~usable
                THEN /\ tArmed' = FALSE
                     /\ tDecline' = 0
                     /\ tPeak' = 0
                ELSE IF ~tArmed
                THEN IF AtLeastBand(ppm.v, tEma.v, tVar, kOf(tCfg))
                     THEN /\ tArmed' = TRUE
                          /\ tPeak' = ppm.v
                          /\ tDecline' = 0
                     ELSE UNCHANGED <<tArmed, tPeak, tDecline>>
                ELSE /\ tArmed' = tArmed
                     /\ tPeak' = IF rising THEN ppm.v ELSE tPeak
                     /\ tDecline' = IF rising THEN 0 ELSE declineTicks
             /\ IF fire # ""
                THEN /\ tPhase' = "done"
                     /\ tRes' = fire
                     /\ tNow' = tNow + elapsedMs
                ELSE /\ tNow' = tNow + Max(elapsedMs, tCfg.triggerExecuteIntervalMs)
                     /\ UNCHANGED <<tPhase, tRes>>
    /\ UNCHANGED <<tCfg, tStart, tEma, tVar, tSamples, tStop, tSignals>>
    /\ UNCHANGED othersTrig

\* The execute loop is over without a fire.
TrigExecuteEnd ==
    /\ tPhase = "execute"
    /\ ~(tNow - tStart < tCfg.triggerExecuteMs)
    /\ tPhase' = "done"
    /\ tRes' = "execute-window-expired"
    /\ UNCHANGED <<tCfg, tNow, tStart, tEma, tVar, tSamples, tArmed, tPeak, tDecline,
                   tStop, tRun, tSignals, tLast>>
    /\ UNCHANGED othersTrig

TrigNext == \/ TrigStop
            \/ TrigObserveTick
            \/ TrigObserveEnd
            \/ TrigExecuteTick
            \/ TrigExecuteEnd

SpecTrigger == TrigInit /\ [][TrigNext]_vars

\* ------------------------------------------------------------------------
\* The amount selection of a trigger window (SpecRotate): main keeps one
\* scan state per pair and runs one window after another for the pair;
\* every tick of a window asks pickAmountsOverrideForTick which sizes to
\* quote.  Amounts are strings as in the pair's configuration.
\* ------------------------------------------------------------------------
MaxPerTick == 3

MaxRotTicks == 3

MaxWindows == 2

\* BigInt(amount) of the strings that pass /^\d+$/.
AmountValue == [a \in {"1", "2", "3", "4", "5"} |-> CHOOSE n \in 1..5 : ToString(n) = a]

IsDigits(a) == a \in DOMAIN AmountValue

normalizeAmountList(values) ==
    LET RECURSIVE loop(_, _)
        loop(i, out) ==
            IF i > Len(values) THEN out
            ELSE IF IsDigits(values[i]) /\ values[i] \notin {out[j] : j \in DOMAIN out}
                 THEN loop(i + 1, Append(out, values[i]))
                 ELSE loop(i + 1, out)
    IN  loop(1, <<>>)

eligibleAmounts(pair) ==
    LET configuredAmounts ==
            normalizeAmountList(IF Len(pair.amountASteps) > 0 THEN pair.amountASteps
                                ELSE <<pair.amountA>>)
        underCap(a) == AmountValue[a] <= AmountValue[pair.maxNotionalA]
    IN  IF IsDigits(pair.maxNotionalA) THEN SelectSeq(configuredAmounts, underCap)
        ELSE configuredAmounts

IndexOf(seq, x) == CHOOSE i \in DOMAIN seq : seq[i] = x /\ \A j \in 1..(i - 1) : seq[j] # x

\* 0-based, as in the source.
preferredAmountIndex(pair) ==
    LET el == eligibleAmounts(pair)
    IN  IF IsDigits(pair.amountA) /\ pair.amountA \in {el[j] : j \in DOMAIN el}
        THEN IndexOf(el, pair.amountA) - 1 ELSE 0

\* k entries of amounts, round-robin from the 0-based index `from`.
PickFrom(amounts, from, k) == [i \in 1..k |-> amounts[((from + i - 1) % Len(amounts)) + 1]]

maxAmountsPerTick(cfg) == Max(0, cfg.triggerMaxAmountsPerTick)

fixedAmounts(cfg) ==
    LET el == eligibleAmounts(cfg.pair)
        k == maxAmountsPerTick(cfg)
    IN  IF cfg.triggerAmountMode # "fixed" THEN NoValue
        ELSE IF k <= 0 THEN NoValue
        ELSE IF Len(el) = 0 THEN NoValue
        ELSE IF k >= Len(el) THEN el
        ELSE PickFrom(el, preferredAmountIndex(cfg.pair), k)

\* The sizes of one tick and the cursor after it.
pickAmountsOverrideForTick(cfg, amountCursor) ==
    LET el == eligibleAmounts(cfg.pair)
        k == maxAmountsPerTick(cfg)
    IN  IF cfg.triggerAmountMode = "all" THEN [picked |-> NoValue, cursor |-> amountCursor]
        ELSE IF k <= 0 THEN [picked |-> NoValue, cursor |-> amountCursor]
        ELSE IF Len(el) = 0 THEN [picked |-> NoValue, cursor |-> amountCursor]
        ELSE IF k >= Len(el) THEN [picked |-> el, cursor |-> amountCursor]
        ELSE IF cfg.triggerAmountMode = "fixed"
             THEN [picked |-> fixedAmounts(cfg), cursor |-> amountCursor]
        ELSE [picked |-> PickFrom(el, amountCursor, k),
              cursor |-> (amountCursor + k) % Len(el)]

RotPairs ==
    {[name |-> "SOL/USDC", amountA |-> "2", amountASteps |-> <<"1", "2", "3">>,
      maxNotionalA |-> ""],
     [name |-> "SOL/USDC", amountA |-> "3", amountASteps |-> <<"1", "2", "2", "x", "3", "4", "5">>,
      maxNotionalA |-> "4"],
     [name |-> "SOL/USDC", amountA |-> "5", amountASteps |-> <<>>, maxNotionalA |-> ""]}

RotConfigs ==
    [pair : RotPairs,
     triggerAmountMode : {"all", "rotate", "fixed"},
     triggerMaxAmountsPerTick : 0..MaxPerTick]

RotInit == /\ rCfg \in RotConfigs
           /\ rCursor = 0
           /\ rState = NoValue
           /\ rWindow = 0
           /\ rTicks = 0
           /\ rExpect = 0
           /\ rLast = [closed |-> TRUE, ticked |-> FALSE, picked |-> NoValue, from |-> 0]
           /\ DecIdle
           /\ ExIdle
           /\ ScanIdle
           /\ LimIdle
           /\ AtIdle
           /\ FeeIdle
           /\ QcIdle
           /\ TrigIdle
           /\ SchedIdle
           /\ LogIdle
           /\ TipIdle
           /\ SetupIdle
           /\ BrkIdle
           /\ GateIdle
           /\ OoGateIdle
           /\ OcIdle

\* main starts a window for the pair: it looks up or creates the pair's
\* scan state and calls scanAndMaybeExecute, whose cursor starts at 0.
RotWindowStart ==
    /\ rTicks = 0
    /\ rWindow < MaxWindows
    /\ rLast.closed
    /\ rState' = IF rState = NoValue THEN [amountCursor |-> 0] ELSE rState
    /\ rWindow' = rWindow + 1
    /\ rCursor' = 0
    /\ rLast' = [closed |-> FALSE, ticked |-> FALSE, picked |-> NoValue, from |-> 0]
    /\ UNCHANGED <<rCfg, rTicks, rExpect>>
    /\ UNCHANGED othersRot

\* One tick of the window: runScan asks for the sizes of this tick.
RotTick ==
    /\ ~rLast.closed
    /\ rTicks < MaxRotTicks
    /\ LET r == pickAmountsOverrideForTick(rCfg, rCursor)
           n == Len(eligibleAmounts(rCfg.pair))
       IN  /\ rCursor' = r.cursor
           /\ rLast' = [closed |-> FALSE, ticked |-> TRUE, picked |-> r.picked, from |-> rExpect]
           /\ rExpect' = (rExpect + maxAmountsPerTick(rCfg)) % n
    /\ rTicks' = rTicks + 1
    /\ UNCHANGED <<rCfg, rState, rWindow>>
    /\ UNCHANGED othersRot

\* The window returns after at least one tick.
RotWindowEnd ==
    /\ ~rLast.closed
    /\ rTicks > 0
    /\ rLast' = [rLast EXCEPT !.closed = TRUE]
    /\ rTicks' = 0
    /\ UNCHANGED <<rCfg, rCursor, rState, rWindow, rExpect>>
    /\ UNCHANGED othersRot

RotNext == \/ RotWindowStart
           \/ RotTick
           \/ RotWindowEnd

SpecRotate == RotInit /\ [][RotNext]_vars

\* ------------------------------------------------------------------------
\* The scheduler of main (SpecSched): every round picks the pairs that are
\* out of cooldown and due, and runs forEachLimit over them; each worker
\* of forEachLimit takes the next pair off the shared queue and awaits its
\* scan.  The pairs of a configuration have distinct names.
\* ------------------------------------------------------------------------
MaxSchedClock == 3

MinSleepMs == 5

\* The clock moves in steps of the shortest sleep.
SchedTickMs == MinSleepMs

PairNames == {"A", "B"}

SchedWorkers == 1..2

SchedPairs ==
    {<<[name |-> "A", cooldownMs |-> ca], [name |-> "B", cooldownMs |-> cb]>> :
        ca \in {0, 2 * SchedTickMs}, cb \in {0}}

SchedConfigs ==
    [pairs : SchedPairs,
     once : BOOLEAN,
     pollIntervalMs : {SchedTickMs},
     pairConcurrency : {0, 2},
     spread : [PairNames -> {0}] \cup {[n \in PairNames |-> IF n = "A" THEN 0 ELSE SchedTickMs]},
     limits : {[maxErrorsBeforeExit |-> 0, maxConsecutiveErrorsBeforeExit |-> 0],
               [maxErrorsBeforeExit |-> 2, maxConsecutiveErrorsBeforeExit |-> 0],
               [maxErrorsBeforeExit |-> 0, maxConsecutiveErrorsBeforeExit |-> 2]}]

PairOf(cfg, name) == cfg.pairs[CHOOSE i \in DOMAIN cfg.pairs : cfg.pairs[i].name = name]

\* Map.get(name) ?? 0
GetOr0(map, name) == IF name \in DOMAIN map THEN map[name] ELSE 0

SchedInit ==
    /\ mCfg \in SchedConfigs
    /\ mNow = 0
    /\ mStop = FALSE
    /\ mPc = "top"
    /\ mWake = 0
    /\ mCooldowns = << >>
    /\ mNextScanAt = IF mCfg.once THEN << >>
                     ELSE [n \in PairNames |-> 0 + mCfg.spread[n]]
    /\ mStates = {}
    /\ mQueue = <<>>
    /\ mWorkers = [w \in SchedWorkers |-> [st |-> "none", pair |-> ""]]
    /\ mErrors = [totalErrors |-> 0, consecutiveErrors |-> 0, exitEvent |-> "", exitCode |-> 0, shutdown |-> FALSE]
    /\ DecIdle
    /\ ExIdle
    /\ ScanIdle
    /\ LimIdle
    /\ AtIdle
    /\ FeeIdle
    /\ QcIdle
    /\ TrigIdle
    /\ RotIdle
    /\ LogIdle
    /\ TipIdle
    /\ SetupIdle
    /\ BrkIdle
    /\ GateIdle
    /\ OoGateIdle
    /\ OcIdle

\* Time passes.
SchedTick ==
    /\ mNow < MaxSchedClock * SchedTickMs
    /\ mPc \in {"sleep", "each"}
    /\ mNow' = mNow + SchedTickMs
    /\ UNCHANGED <<mCfg, mStop, mPc, mWake, mCooldowns, mNextScanAt, mStates, mQueue,
                   mWorkers, mErrors>>
    /\ UNCHANGED othersSched

\* SIGINT / SIGTERM: requestStop.
SchedStop ==
    /\ ~mStop
    /\ mPc \in {"top", "sleep", "each"}
    /\ mStop' = TRUE
    /\ UNCHANGED <<mCfg, mNow, mPc, mWake, mCooldowns, mNextScanAt, mStates, mQueue,
                   mWorkers, mErrors>>
    /\ UNCHANGED othersSched

\* eligiblePairs without the test of the cooldown.
eligiblePairsDueOnly(cfg, now, cooldowns, nextScanAt) ==
    IF cfg.once THEN cfg.pairs
    ELSE LET due(pair) == now >= GetOr0(nextScanAt, pair.name)
         IN  SelectSeq(cfg.pairs, due)

eligiblePairs(cfg, now, cooldowns, nextScanAt) ==
    IF cfg.once THEN cfg.pairs
    ELSE LET due(pair) == /\ ~(now < GetOr0(cooldowns, pair.name))
                          /\ now >= GetOr0(nextScanAt, pair.name)
         IN  SelectSeq(cfg.pairs, due)

\* The earliest time a pair comes due, at most one poll interval away.
nextWakeAt(cfg, now, cooldowns, nextScanAt) ==
    LET RECURSIVE loop(_, _)
        loop(i, wake) ==
            IF i > Len(cfg.pairs) THEN wake
            ELSE LET nextAt == Max(GetOr0(cooldowns, cfg.pairs[i].name),
                                   GetOr0(nextScanAt, cfg.pairs[i].name))
                 IN  loop(i + 1, IF nextAt > 0 /\ nextAt < wake THEN nextAt ELSE wake)
    IN  loop(1, now + cfg.pollIntervalMs)

forEachLimitUnbounded(items, limit) ==
    [queue |-> items,
     workers |-> [w \in SchedWorkers |->
                    IF w <= Len(items) THEN [st |-> "idle", pair |-> ""]
                    ELSE [st |-> "none", pair |-> ""]]]

\* What forEachLimit does before its workers run: the queue is a copy of
\* the items and there are min(concurrency, items) workers.
forEachLimit(items, limit) ==
    LET concurrency == Max(1, limit)
    IN  [queue |-> items,
         workers |-> [w \in SchedWorkers |->
                        IF w <= Min(concurrency, Len(items))
                        THEN [st |-> "idle", pair |-> ""]
                        ELSE [st |-> "none", pair |-> ""]]]

\* The top of a round of main's loop.
SchedRound ==
    /\ mPc = "top"
    /\ IF mStop
       THEN /\ mPc' = "exit"
            /\ UNCHANGED <<mWake, mQueue, mWorkers>>
       ELSE LET eligible == eligiblePairs(mCfg, mNow, mCooldowns, mNextScanAt)
            IN  IF ~mCfg.once /\ Len(eligible) = 0
                THEN LET wake == nextWakeAt(mCfg, mNow, mCooldowns, mNextScanAt)
                         sleepMs == Max(MinSleepMs, Min(mCfg.pollIntervalMs, wake - mNow))
                     IN  /\ mPc' = "sleep"
                         /\ mWake' = mNow + sleepMs
                         /\ UNCHANGED <<mQueue, mWorkers>>
                ELSE LET each == forEachLimit([i \in DOMAIN eligible |-> eligible[i].name],
                                              mCfg.pairConcurrency)
                     IN  /\ mPc' = "each"
                         /\ mQueue' = each.queue
                         /\ mWorkers' = each.workers
                         /\ UNCHANGED mWake
    /\ UNCHANGED <<mCfg, mNow, mStop, mCooldowns, mNextScanAt, mStates, mErrors>>
    /\ UNCHANGED othersSched

\* The sleep of a round without eligible pairs is over.
SchedWake ==
    /\ mPc = "sleep"
    /\ mNow >= mWake
    /\ mPc' = "top"
    /\ UNCHANGED <<mCfg, mNow, mStop, mWake, mCooldowns, mNextScanAt, mStates, mQueue,
                   mWorkers, mErrors>>
    /\ UNCHANGED othersSched

shiftKeep(queue) == [item |-> Head(queue), rest |-> queue]

shift(queue) == [item |-> Head(queue), rest |-> Tail(queue)]

SchedTakeAnyway(w) ==
    /\ mPc \in {"each", "failed"}
    /\ mWorkers[w].st = "idle"
    /\ Len(mQueue) > 0
    /\ LET s == shift(mQueue)
       IN  /\ mQueue' = s.rest
           /\ IF FALSE
              THEN UNCHANGED <<mNextScanAt, mStates, mWorkers>>
              ELSE /\ mNextScanAt' =
                        IF mCfg.once THEN mNextScanAt
                        ELSE [n \in DOMAIN mNextScanAt \cup {s.item} |->
                                IF n = s.item THEN mNow + mCfg.pollIntervalMs
                                ELSE mNextScanAt[n]]
                   /\ mStates' = mStates \cup {s.item}
                   /\ mWorkers' = [mWorkers EXCEPT ![w] = [st |-> "scan", pair |-> s.item]]
    /\ UNCHANGED <<mCfg, mNow, mStop, mPc, mWake, mCooldowns, mErrors>>
    /\ UNCHANGED othersSched

\* A worker takes the next pair and starts the callback of main: nothing
\* after a stop, else the next-scan time, the scan state and the scan.
SchedTake(w) ==
    /\ mPc \in {"each", "failed"}
    /\ mWorkers[w].st = "idle"
    /\ Len(mQueue) > 0
    /\ LET s == shift(mQueue)
       IN  /\ mQueue' = s.rest
           /\ IF mStop
              THEN UNCHANGED <<mNextScanAt, mStates, mWorkers>>
              ELSE /\ mNextScanAt' =
                        IF mCfg.once THEN mNextScanAt
                        ELSE [n \in DOMAIN mNextScanAt \cup {s.item} |->
                                IF n = s.item THEN mNow + mCfg.pollIntervalMs
                                ELSE mNextScanAt[n]]
                   /\ mStates' = mStates \cup {s.item}
                   /\ mWorkers' = [mWorkers EXCEPT ![w] = [st |-> "scan", pair |-> s.item]]
    /\ UNCHANGED <<mCfg, mNow, mStop, mPc, mWake, mCooldowns, mErrors>>
    /\ UNCHANGED othersSched

SetCooldown(cooldowns, pair, now) ==
    [n \in DOMAIN cooldowns \cup {pair.name} |->
        IF n = pair.name THEN now + pair.cooldownMs ELSE cooldowns[n]]

exitReasonStrict(limits, totalErrors, consecutiveErrors) ==
    IF limits.maxErrorsBeforeExit > 0 /\ totalErrors > limits.maxErrorsBeforeExit
    THEN "max-errors"
    ELSE IF /\ limits.maxConsecutiveErrorsBeforeExit > 0
            /\ consecutiveErrors > limits.maxConsecutiveErrorsBeforeExit
    THEN "max-consecutive-errors"
    ELSE ""

\* The reason of the exit event the catch block logs before it rethrows,
\* "" when it does not.
exitReason(limits, totalErrors, consecutiveErrors) ==
    IF limits.maxErrorsBeforeExit > 0 /\ totalErrors >= limits.maxErrorsBeforeExit
    THEN "max-errors"
    ELSE IF /\ limits.maxConsecutiveErrorsBeforeExit > 0
            /\ consecutiveErrors >= limits.maxConsecutiveErrorsBeforeExit
    THEN "max-consecutive-errors"
    ELSE ""

\* The scan of a worker returns or throws.  A rethrown error rejects the
\* worker, forEachLimit and main, whose catch sets the exit code again;
\* the other workers go on until the queue is empty.
SchedScanDone(w) ==
    /\ mWorkers[w].st = "scan"
    /\ \E kind \in {"skipped", "executed", "error"} :
         LET pair == PairOf(mCfg, mWorkers[w].pair)
             totalErrors == mErrors.totalErrors + 1
             consecutiveErrors == mErrors.consecutiveErrors + 1
             reason == exitReason(mCfg.limits, totalErrors, consecutiveErrors)
         IN  IF kind = "error"
             THEN /\ mErrors' = [totalErrors |-> totalErrors,
                                 consecutiveErrors |-> consecutiveErrors,
                                 exitEvent |-> IF reason # "" THEN reason ELSE mErrors.exitEvent,
                                 exitCode |-> IF reason # "" THEN 1 ELSE mErrors.exitCode,
                                 shutdown |-> mErrors.shutdown]
                  /\ mCooldowns' = IF pair.cooldownMs > 0
                                   THEN SetCooldown(mCooldowns, pair, mNow) ELSE mCooldowns
                  /\ mWorkers' = [mWorkers EXCEPT ![w] =
                                    [st |-> IF reason # "" THEN "threw" ELSE "idle", pair |-> ""]]
                  /\ mPc' = IF reason # "" THEN "failed" ELSE mPc
             ELSE /\ mErrors' = [mErrors EXCEPT !.consecutiveErrors = 0]
                  /\ mCooldowns' = IF pair.cooldownMs > 0 /\ kind # "skipped"
                                   THEN SetCooldown(mCooldowns, pair, mNow) ELSE mCooldowns
                  /\ mWorkers' = [mWorkers EXCEPT ![w] = [st |-> "idle", pair |-> ""]]
                  /\ UNCHANGED mPc
    /\ UNCHANGED <<mCfg, mNow, mStop, mWake, mNextScanAt, mStates, mQueue>>
    /\ UNCHANGED othersSched

\* A worker finds the queue empty and ends.
SchedWorkerEnd(w) ==
    /\ mWorkers[w].st = "idle"
    /\ Len(mQueue) = 0
    /\ mWorkers' = [mWorkers EXCEPT ![w] = [st |-> "none", pair |-> ""]]
    /\ UNCHANGED <<mCfg, mNow, mStop, mPc, mWake, mCooldowns, mNextScanAt, mStates,
                   mQueue, mErrors>>
    /\ UNCHANGED othersSched

\* Promise.all of the workers resolves: the round is over.
SchedJoin ==
    /\ mPc = "each"
    /\ \A w \in SchedWorkers : mWorkers[w].st = "none"
    /\ mPc' = IF mCfg.once \/ mStop THEN "exit" ELSE "top"
    /\ UNCHANGED <<mCfg, mNow, mStop, mWake, mCooldowns, mNextScanAt, mStates, mQueue,
                   mWorkers, mErrors>>
    /\ UNCHANGED othersSched

\* After the loop: the shutdown event of a requested stop.
SchedEnd ==
    /\ mPc = "exit"
    /\ mPc' = "done"
    /\ mErrors' = [mErrors EXCEPT !.shutdown = mStop]
    /\ UNCHANGED <<mCfg, mNow, mStop, mWake, mCooldowns, mNextScanAt, mStates, mQueue,
                   mWorkers>>
    /\ UNCHANGED othersSched

SchedNext == \/ SchedTick
             \/ SchedEnd
             \/ SchedStop
             \/ SchedRound
             \/ SchedWake
             \/ SchedJoin
             \/ \E w \in SchedWorkers : SchedTake(w)
             \/ \E w \in SchedWorkers : SchedScanDone(w)
             \/ \E w \in SchedWorkers : SchedWorkerEnd(w)

SpecSched == SchedInit /\ [][SchedNext]_vars

\* Time passes, and the event loop runs every continuation that is ready:
\* a scan that was started settles, and a worker that can go on does.
SchedFairness ==
    /\ WF_vars(SchedTick)
    /\ WF_vars(SchedRound)
    /\ WF_vars(SchedWake)
    /\ WF_vars(SchedJoin)
    /\ WF_vars(SchedEnd)
    /\ \A w \in SchedWorkers : /\ WF_vars(SchedTake(w))
                               /\ WF_vars(SchedScanDone(w))
                               /\ WF_vars(SchedWorkerEnd(w))

SpecSchedFair == SpecSched /\ SchedFairness

\* ------------------------------------------------------------------------
\* JSONL logger with rotation (src/lib/logger.ts)
\* ------------------------------------------------------------------------

MaxLines == 5
MaxLineBytes == 2
MaxRotateBytes == 3
MaxRotateFiles == 2

\* A file of the log directory: path (index 0) and the backups path.i.
Missing == [e |-> FALSE, l |-> <<>>]

RECURSIVE FileBytes(_)
FileBytes(lines) == IF lines = <<>> THEN 0 ELSE Head(lines).bytes + FileBytes(Tail(lines))

\* fs rename(from, to) under the catch of rotateIfNeeded: a missing source is
\* ENOENT, which is swallowed; an existing target is replaced.
rename(files, from, to) ==
    IF files[from].e THEN [files EXCEPT ![to] = files[from], ![from] = Missing] ELSE files

\* The renames of rotateIfNeeded from path.i down to path itself (i = 0):
\* path.i -> path.(i+1) for i = maxFiles - 1 .. 1, then path -> path.1.
\* failAt is the rename that throws something other than ENOENT.
RECURSIVE renameDown(_, _, _)
renameDown(files, i, failAt) ==
    IF i < 0 THEN [files |-> files, thrown |-> FALSE]
    ELSE IF i = failAt /\ files[i].e THEN [files |-> files, thrown |-> TRUE]
    ELSE renameDown(rename(files, i, i + 1), i - 1, failAt)

\* getCurrentSize: knownSize when defined, else the size stat reports (0 when
\* the file is missing).
getCurrentSize(known, files) ==
    IF known.def THEN known.v ELSE IF files[0].e THEN FileBytes(files[0].l) ELSE 0

rotateEnabled(c) == c.rotateMaxBytes > 0 /\ c.rotateMaxFiles > 0

\* rotateIfNeeded(nextBytes): the files and knownSize after it, and whether
\* it threw.
rotateIfNeeded(c, known, files, nextBytes, failAt) ==
    IF ~rotateEnabled(c) THEN [files |-> files, known |-> known, thrown |-> FALSE]
    ELSE LET currentSize == getCurrentSize(known, files)
             sized == [def |-> TRUE, v |-> currentSize]
         IN IF currentSize + nextBytes <= c.rotateMaxBytes
            THEN [files |-> files, known |-> sized, thrown |-> FALSE]
            ELSE LET r == renameDown(files, c.rotateMaxFiles - 1, failAt)
                 IN IF r.thrown
                    THEN [files |-> r.files, known |-> sized, thrown |-> TRUE]
                    ELSE [files |-> r.files, known |-> [def |-> TRUE, v |-> 0], thrown |-> FALSE]

\* chain = chain.then(run, run): the run that starts next is the oldest
\* write of the chain.
nextInChainLast(chain) == Len(chain)

nextInChain(chain) == 1

LogConfigs == [rotateMaxBytes : {0, MaxRotateBytes - 1, MaxRotateBytes}, rotateMaxFiles : 0..MaxRotateFiles]

LogSlots == 0..(MaxRotateFiles + 1)

\* The log file of an earlier run of the process may be there already.
LogInit ==
    /\ gCfg \in LogConfigs
    /\ \E old \in {0} \cup (1..MaxLineBytes) :
        gFiles = [i \in LogSlots |->
                    IF i = 0 /\ old > 0
                    THEN [e |-> TRUE, l |-> <<[id |-> 0, bytes |-> old]>>]
                    ELSE Missing]
    /\ gKnown = [def |-> FALSE, v |-> 0]
    /\ gChain = <<>>
    /\ gIssued = IF gFiles[0].e THEN <<[id |-> 0, bytes |-> gFiles[0].l[1].bytes, state |-> "written"]>> ELSE <<>>
    /\ DecIdle
    /\ ExIdle
    /\ ScanIdle
    /\ LimIdle
    /\ AtIdle
    /\ FeeIdle
    /\ QcIdle
    /\ TrigIdle
    /\ RotIdle
    /\ SchedIdle
    /\ TipIdle
    /\ SetupIdle
    /\ BrkIdle
    /\ GateIdle
    /\ OoGateIdle
    /\ OcIdle

NewLines == Len(SelectSeq(gIssued, LAMBDA w : w.id > 0))

\* logger(event) up to `await next`: the line is serialized and its run is
\* chained behind the runs already issued.
LogIssue ==
    /\ NewLines < MaxLines
    /\ \E bytes \in 1..MaxLineBytes :
        LET id == NewLines + 1
        IN /\ gIssued' = Append(gIssued, [id |-> id, bytes |-> bytes, state |-> "queued"])
           /\ gChain' = Append(gChain, [id |-> id, bytes |-> bytes])
    /\ UNCHANGED <<gCfg, gFiles, gKnown, othersLog>>

Settle(issued, id, state) ==
    [k \in 1..Len(issued) |-> IF issued[k].id = id THEN [issued[k] EXCEPT !.state = state] ELSE issued[k]]

\* run(): ensureDir, rotateIfNeeded(bytes), appendFile, knownSize += bytes.
\* failAt names the file operation that fails: the rename of path.i
\* (0..maxFiles - 1), appendFile (-2), or none (-1).
LogRun ==
    /\ gChain # <<>>
    /\ \E failAt \in (-2)..(MaxRotateFiles - 1) :
        LET n == nextInChain(gChain)
            w == gChain[n]
            r == rotateIfNeeded(gCfg, gKnown, gFiles, w.bytes, failAt)
            ok == ~r.thrown /\ failAt # -2
        IN /\ (failAt >= 0 => r.thrown)
           /\ gChain' = [k \in 1..(Len(gChain) - 1) |-> IF k < n THEN gChain[k] ELSE gChain[k + 1]]
           /\ gFiles' = IF ok
                        THEN [r.files EXCEPT ![0] = [e |-> TRUE, l |-> Append(r.files[0].l, w)]]
                        ELSE r.files
           /\ gKnown' = IF ok /\ r.known.def
                        THEN [def |-> TRUE, v |-> r.known.v + w.bytes]
                        ELSE r.known
           /\ gIssued' = Settle(gIssued, w.id, IF ok THEN "written" ELSE "failed")
    /\ UNCHANGED <<gCfg, othersLog>>

LogNext == LogIssue \/ LogRun

SpecLog == LogInit /\ [][LogNext]_vars

\* ------------------------------------------------------------------------
\* Tip of a candidate (src/bot/scanner.ts, computeJitoTipLamports)
\* ------------------------------------------------------------------------

MaxTipCfg == 3
BpsUnit == 10000

\* Math.max(0, Math.floor(n)) of an integer setting.
floorAtZero(n) == IF n > 0 THEN n ELSE 0

\* The dynamic branch without the lower clamp.
dynamicTipUnraised(p) ==
    LET gross == BigIntOf(p.finalMinOut) - BigIntOf(p.amountA)
        raw == TruncDiv(gross * p.tipBps, BpsUnit)
        maxAllowed == floorAtZero(p.maxTipLamports)
    IN IF gross <= 0 THEN 0
       ELSE Max(0, Min(maxAllowed, raw))

\* The dynamic branch for a SOL pair: raw = gross * tipBps / 10_000 on
\* BigInt, raised to minAllowed, capped at maxAllowed, and clamped once more
\* to [0, maxAllowed] as a number.
dynamicTip(p) ==
    LET gross == BigIntOf(p.finalMinOut) - BigIntOf(p.amountA)
        raw == TruncDiv(gross * p.tipBps, BpsUnit)
        maxAllowed == floorAtZero(p.maxTipLamports)
        minAllowed == floorAtZero(p.minTipLamports)
        clamped == IF raw < minAllowed THEN minAllowed
                   ELSE IF raw > maxAllowed THEN maxAllowed ELSE raw
    IN IF gross <= 0 THEN 0
       ELSE Max(0, Min(maxAllowed, clamped))

computeJitoTipLamports(p) ==
    IF ~p.jitoEnabled THEN 0
    ELSE IF p.fixedTipLamports <= 0 /\ p.jitoTipMode = "fixed" THEN 0
    ELSE IF p.jitoTipMode = "fixed" THEN floorAtZero(p.fixedTipLamports)
    ELSE IF ~p.aMintIsSol THEN floorAtZero(p.fixedTipLamports)
    ELSE dynamicTip(p)

\* The settings come from the environment through parseIntOr, which accepts
\* any integer; the amounts are the decimal strings of the quotes.
TipParams ==
    [jitoEnabled : BOOLEAN, jitoTipMode : {"fixed", "dynamic"},
     fixedTipLamports : {-1, 0, 2},
     minTipLamports : (-1)..MaxTipCfg, maxTipLamports : (-1)..MaxTipCfg,
     tipBps : {-5000, 0, 5000, 10000, 30000},
     aMintIsSol : BOOLEAN,
     amountA : AmountStrings, finalMinOut : AmountStrings]

TipInit ==
    /\ jCfg \in TipParams
    /\ jTip = Undefined
    /\ DecIdle
    /\ ExIdle
    /\ ScanIdle
    /\ LimIdle
    /\ AtIdle
    /\ FeeIdle
    /\ QcIdle
    /\ TrigIdle
    /\ RotIdle
    /\ SchedIdle
    /\ LogIdle
    /\ SetupIdle
    /\ BrkIdle
    /\ GateIdle
    /\ OoGateIdle
    /\ OcIdle

\* scanPair: const jitoTipLamports = computeJitoTipLamports({...})
TipCompute ==
    /\ ~jTip.def
    /\ jTip' = Num(computeJitoTipLamports(jCfg))
    /\ UNCHANGED <<jCfg, othersTip>>

TipNext == TipCompute

SpecTip == TipInit /\ [][TipNext]_vars

\* ------------------------------------------------------------------------
\* Setup of the wallet's token accounts (src/solana/setupWallet.ts)
\* ------------------------------------------------------------------------

MaxSetupMints == 7
ChunkSize == 6

\* Mint 0 stands for NATIVE_MINT, 1..MaxSetupMints for the other mints.
NativeMint == 0

\* Array.from(new Set(mintAddresses)): first occurrences, in order.
RECURSIVE uniqueMints(_)
uniqueMints(list) ==
    IF list = <<>> THEN <<>>
    ELSE LET init == uniqueMints(SubSeq(list, 1, Len(list) - 1))
             last == list[Len(list)]
         IN IF \E k \in 1..Len(init) : init[k] = last THEN init ELSE Append(init, last)

\* One createAssociatedTokenAccountIdempotentInstruction per mint that is
\* not the native mint; the instruction is named by its mint.
setupInstructions(mintAddresses) ==
    SelectSeq(uniqueMints(mintAddresses), LAMBDA m : m # NativeMint)

\* Everything in one group.
chunkWhole(items, size) == IF items = <<>> THEN <<>> ELSE <<items>>

RECURSIVE chunk(_, _)
chunk(items, size) ==
    IF items = <<>> THEN <<>>
    ELSE IF Len(items) <= size THEN <<items>>
    ELSE <<SubSeq(items, 1, size)>> \o chunk(SubSeq(items, size + 1, Len(items)), size)

\* config.pairs.flatMap(pair => [pair.aMint, pair.bMint]): the native mint
\* or not, n other mints, one of them named by two pairs or not.
SetupMintLists ==
    {(IF native THEN <<NativeMint>> ELSE <<>>) \o [k \in 1..n |-> k] \o (IF twice /\ n > 0 THEN <<1>> ELSE <<>>) :
        native \in BOOLEAN, n \in 0..MaxSetupMints, twice \in BOOLEAN}

SetupInit ==
    /\ wMints \in SetupMintLists
    /\ wBefore \in SUBSET (1..MaxSetupMints)
    /\ wAccounts = wBefore
    /\ wGroups = <<>>
    /\ wSent = <<>>
    /\ wSigs = <<>>
    /\ wPc = "start"
    /\ DecIdle
    /\ ExIdle
    /\ ScanIdle
    /\ LimIdle
    /\ AtIdle
    /\ FeeIdle
    /\ QcIdle
    /\ TrigIdle
    /\ RotIdle
    /\ SchedIdle
    /\ LogIdle
    /\ TipIdle
    /\ BrkIdle
    /\ GateIdle
    /\ OoGateIdle
    /\ OcIdle

\* setupWalletTokenAccounts up to the loop: the instructions of every
\* configured mint, in groups of six; nothing to do without instructions.
SetupStart ==
    /\ wPc = "start"
    /\ LET instructions == setupInstructions(wMints)
       IN IF instructions = <<>>
          THEN /\ wPc' = "done"
               /\ wGroups' = <<>>
          ELSE /\ wPc' = "loop"
               /\ wGroups' = chunk(instructions, ChunkSize)
    /\ UNCHANGED <<wMints, wBefore, wAccounts, wSent, wSigs, othersSetup>>

\* One turn of the loop: blockhash, sign, sendRawTransaction,
\* confirmTransaction, signatures.push. The idempotent instruction creates
\* the accounts that are missing and leaves the others as they are. A
\* failing send or confirmation throws out of the function; a transaction
\* whose confirmation failed may have landed all the same.
SetupSendGroup ==
    /\ wPc = "loop"
    /\ wGroups # <<>>
    /\ \E outcome \in {"confirmed", "send-throws", "confirm-throws"}, onChain \in BOOLEAN :
        LET group == Head(wGroups)
            sent == outcome # "send-throws"
            landed == outcome = "confirmed"
        IN /\ landed => onChain
           /\ ~sent => ~onChain
           /\ wSent' = IF sent THEN Append(wSent, group) ELSE wSent
           /\ wAccounts' = IF onChain THEN wAccounts \cup {group[k] : k \in 1..Len(group)} ELSE wAccounts
           /\ wSigs' = IF landed THEN Append(wSigs, Len(wSent) + 1) ELSE wSigs
           /\ wGroups' = IF landed THEN Tail(wGroups) ELSE wGroups
           /\ wPc' = IF landed THEN (IF Tail(wGroups) = <<>> THEN "done" ELSE "loop") ELSE "threw"
    /\ UNCHANGED <<wMints, wBefore, othersSetup>>

SetupNext == SetupStart \/ SetupSendGroup

SpecSetup == SetupInit /\ [][SetupNext]_vars

\* ------------------------------------------------------------------------
\* ProviderCircuitBreaker under any calls (src/lib/circuitBreaker.ts)
\* ------------------------------------------------------------------------

MaxBrkClock == 4
MaxBrkMs == 3

BrkInit ==
    /\ kOpenUntil = [p \in Providers |-> 0]
    /\ kNow = 1
    /\ kLast = [op |-> "none", key |-> "", ms |-> 0, at |-> 0, until |-> 0, result |-> FALSE]
    /\ DecIdle
    /\ ExIdle
    /\ ScanIdle
    /\ LimIdle
    /\ AtIdle
    /\ FeeIdle
    /\ QcIdle
    /\ TrigIdle
    /\ RotIdle
    /\ SchedIdle
    /\ LogIdle
    /\ TipIdle
    /\ SetupIdle
    /\ GateIdle
    /\ OoGateIdle
    /\ OcIdle

\* Date.now() advances between calls.
BrkTick ==
    /\ kNow < MaxBrkClock
    /\ kNow' = kNow + 1
    /\ UNCHANGED <<kOpenUntil, kLast, othersBrk>>

\* breaker.open(key, cooldownMs) with any cooldown.
BrkOpen ==
    /\ \E key \in Providers, ms \in (-1)..MaxBrkMs :
        /\ kOpenUntil' = open(kOpenUntil, key, ms, kNow)
        /\ kLast' = [op |-> "open", key |-> key, ms |-> ms, at |-> kNow, until |-> kOpenUntil[key], result |-> FALSE]
    /\ UNCHANGED <<kNow, othersBrk>>

\* breaker.isOpen(key)
BrkIsOpen ==
    /\ \E key \in Providers :
        kLast' = [op |-> "isOpen", key |-> key, ms |-> 0, at |-> kNow, until |-> kOpenUntil[key],
                  result |-> isOpen(kOpenUntil, key, kNow)]
    /\ UNCHANGED <<kOpenUntil, kNow, othersBrk>>

BrkNext == BrkTick \/ BrkOpen \/ BrkIsOpen

SpecBreaker == BrkInit /\ [][BrkNext]_vars

\* ------------------------------------------------------------------------
\* Secondary gating of the scans of a trigger window (SpecGate): runScan and
\* shouldUseOpenOcean of scanAndMaybeExecute, with the arming of the execute
\* loop.  What a scan returns is reduced to what the loop does with it.
\* ------------------------------------------------------------------------
MaxEveryNTicks == 3

MaxGateScans == 4

\* openOceanEveryNTicks as scanAndMaybeExecute reads it.
openOceanEveryNTicks(cfg) == Max(1, cfg.openOceanEveryNTicks)

\* shouldUseOpenOcean with the forcing tested before the phase's switch.
shouldUseOpenOceanForceFirst(cfg, ticks, phase, force) ==
    LET phaseEnabled == IF phase = "observe" THEN cfg.openOceanObserveEnabled
                        ELSE cfg.openOceanExecuteEnabled
    IN  IF ~cfg.hasOpenOcean THEN [enabled |-> FALSE, ticks |-> ticks]
        ELSE IF force THEN [enabled |-> TRUE, ticks |-> ticks]
        ELSE IF ~phaseEnabled THEN [enabled |-> FALSE, ticks |-> ticks]
        ELSE [enabled |-> ticks[phase] % openOceanEveryNTicks(cfg) = 0,
              ticks |-> [ticks EXCEPT ![phase] = @ + 1]]

\* shouldUseOpenOcean: its result and openOceanTicks after it.
shouldUseOpenOcean(cfg, ticks, phase, force) ==
    LET phaseEnabled == IF phase = "observe" THEN cfg.openOceanObserveEnabled
                        ELSE cfg.openOceanExecuteEnabled
    IN  IF ~cfg.hasOpenOcean THEN [enabled |-> FALSE, ticks |-> ticks]
        ELSE IF ~phaseEnabled THEN [enabled |-> FALSE, ticks |-> ticks]
        ELSE IF force THEN [enabled |-> TRUE, ticks |-> ticks]
        ELSE [enabled |-> ticks[phase] % openOceanEveryNTicks(cfg) = 0,
              ticks |-> [ticks EXCEPT ![phase] = @ + 1]]

GateConfigs ==
    [hasOpenOcean : BOOLEAN, openOceanObserveEnabled : BOOLEAN,
     openOceanExecuteEnabled : BOOLEAN, openOceanEveryNTicks : 0..MaxEveryNTicks]

NoScans == [scans |-> 0, unforced |-> 0]

GateInit == /\ oCfg \in GateConfigs
            /\ oPhase = "observe"
            /\ oTicks = [single |-> 0, observe |-> 0, execute |-> 0]
            /\ oArmed = FALSE
            /\ oSeen = [observe |-> NoScans, execute |-> NoScans]
            /\ oLast = [phase |-> "none", force |-> FALSE, enabled |-> FALSE,
                        index |-> 0, unforced |-> 0]
            /\ DecIdle
            /\ ExIdle
            /\ ScanIdle
            /\ LimIdle
            /\ AtIdle
            /\ FeeIdle
            /\ QcIdle
            /\ TrigIdle
            /\ RotIdle
            /\ SchedIdle
            /\ LogIdle
            /\ TipIdle
            /\ SetupIdle
            /\ BrkIdle
            /\ OoGateIdle
            /\ OcIdle

\* runScan(phase, {forceOpenOcean}): enableOpenOcean is decided and the scan
\* is made; the scan is recorded with its place among the scans of its
\* phase and among the unforced ones.
runScan(phase, force) ==
    LET use == shouldUseOpenOcean(oCfg, oTicks, phase, force)
    IN  /\ oTicks' = use.ticks
        /\ oLast' = [phase |-> phase, force |-> force, enabled |-> use.enabled,
                     index |-> oSeen[phase].scans, unforced |-> oSeen[phase].unforced]
        /\ oSeen' = [oSeen EXCEPT ![phase].scans = @ + 1,
                                  ![phase].unforced = IF force THEN @ ELSE @ + 1]

\* One pass of the observe loop.
GateObserveScan ==
    /\ oPhase = "observe"
    /\ oSeen.observe.scans < MaxGateScans
    /\ runScan("observe", FALSE)
    /\ UNCHANGED <<oCfg, oPhase, oArmed, othersGate>>

\* The observe loop is over: the window is skipped, or its execute loop
\* starts, not armed.
GateObserveEnd ==
    /\ oPhase = "observe"
    /\ oPhase' \in {"execute", "done"}
    /\ oArmed' = FALSE
    /\ UNCHANGED <<oCfg, oTicks, oSeen, oLast, othersGate>>

\* One pass of the execute loop: the scan is forced when armed; a best
\* candidate that is missing or not profitable disarms, one at the target
\* arms, and an armed pass may fire and end the window.
GateExecuteScan ==
    /\ oPhase = "execute"
    /\ oSeen.execute.scans < MaxGateScans
    /\ runScan("execute", oArmed)
    /\ \E best \in {"unusable", "below-target", "at-target", "fire"} :
         /\ best = "fire" => oArmed
         /\ oArmed' = IF best = "unusable" THEN FALSE
                      ELSE IF ~oArmed THEN best = "at-target"
                      ELSE TRUE
         /\ oPhase' = IF best = "fire" THEN "done" ELSE "execute"
    /\ UNCHANGED <<oCfg, othersGate>>

\* The execute loop is over without a fire.
GateExecuteEnd ==
    /\ oPhase = "execute"
    /\ oPhase' = "done"
    /\ UNCHANGED <<oCfg, oTicks, oArmed, oSeen, oLast, othersGate>>

GateNext ==
    \/ GateObserveScan
    \/ GateObserveEnd
    \/ GateExecuteScan
    \/ GateExecuteEnd

SpecGate == GateInit /\ [][GateNext]_vars

\* ------------------------------------------------------------------------
\* The Secondary section of scanPair as a function of what it reads
\* (SpecOoGate)
\* ------------------------------------------------------------------------

\* What the Secondary section does: it returns without a Secondary quote,
\* for the reason given, or requests the Secondary quotes ("pass").
openOceanSection(c, breakerOpen, candidates, best, gateBps, nearGateBps) ==
    IF ~canUseOpenOcean(c) THEN "scanned"
    ELSE IF breakerOpen THEN "openocean-rate-limited"
    ELSE IF candidates = 0 THEN "no_jupiter_candidate"
    ELSE jupiterGate(best, gateBps, nearGateBps)

OoGateInputs ==
    [cfg : [enableOpenOcean : BOOLEAN, executionStrategy : {"atomic", "sequential"},
            hasOpenOcean : BOOLEAN],
     breakerOpen : BOOLEAN,
     candidates : 0..1,
     best : GateBests,
     gateBps : GateBpsValues,
     nearGateBps : NearGateBpsValues]

OoGateInit == /\ yIn \in OoGateInputs
              /\ yOut = ""
              /\ DecIdle
              /\ ExIdle
              /\ ScanIdle
              /\ LimIdle
              /\ AtIdle
              /\ FeeIdle
              /\ QcIdle
              /\ TrigIdle
              /\ RotIdle
              /\ SchedIdle
              /\ LogIdle
              /\ TipIdle
              /\ SetupIdle
              /\ BrkIdle
              /\ GateIdle
              /\ OcIdle

\* The scan reaches its Secondary section.
OoGateApply ==
    /\ yOut = ""
    /\ yOut' = openOceanSection(yIn.cfg, yIn.breakerOpen, yIn.candidates, yIn.best,
                                yIn.gateBps, yIn.nearGateBps)
    /\ UNCHANGED <<yIn, othersOoGate>>

SpecOoGate == OoGateInit /\ [][OoGateApply]_vars

\* ------------------------------------------------------------------------
\* Secondary client (SpecOc): OpenOceanClient.call over its
\* MinIntervalRateLimiter.  A request is the fn handed to call: a fetch.
\* ------------------------------------------------------------------------
MaxOcCalls == 3

MaxOcTicks == 1

\* What a fetch rejects with.
OcErrors == {"HTTP 429", "HTTP 429 banned for 1 hour", "HTTP 500", "HTTP 400"}

\* extractHttpStatus of the client: the status in the message.
ocHttpStatus(error) ==
    IF error \in {"HTTP 429", "HTTP 429 banned for 1 hour"} THEN 429
    ELSE IF error = "HTTP 500" THEN 500
    ELSE IF error = "HTTP 400" THEN 400
    ELSE 0

\* extractOpenOceanBanMs: the ban the message tells of, 0 for none.
extractOpenOceanBanMs(error) ==
    IF error = "HTTP 429 banned for 1 hour" THEN 60 * 60 * 1000 ELSE 0

\* assertNotBanned throws.
assertNotBannedThrows(now, bannedUntilMs) == now < bannedUntilMs

\* bannedUntilMs after the catch block of call.
bannedAfter(bannedUntilMs, error, now) ==
    LET status == ocHttpStatus(error)
        banMs == extractOpenOceanBanMs(error)
    IN  IF status = 429
        THEN Max(bannedUntilMs, now + (IF banMs > 0 THEN banMs ELSE 10000))
        ELSE IF status >= 500 THEN Max(bannedUntilMs, now + 2000)
        ELSE bannedUntilMs

\* The function handed to schedule, as fn itself.
scheduledFnUnchecked(now, bannedUntilMs) == "fetch"

\* The function handed to schedule: assertNotBanned, then fn.
scheduledFn(now, bannedUntilMs) ==
    IF assertNotBannedThrows(now, bannedUntilMs) THEN "banned" ELSE "fetch"

OcJob(caller, after) ==
    [caller |-> caller, after |-> after, st |-> "queued", wake |-> 0, at |-> 0,
     fetched |-> FALSE, err |-> "none"]

OcInit == /\ cMinInterval \in {0, 1200}
          /\ cNow = StartMs
          /\ cTicks = 0
          /\ cBan = 0
          /\ cLim = [lastRunAtMs |-> 0, cooldownUntilMs |-> 0]
          /\ cChain = 0
          /\ cJobs = <<>>
          /\ cCalls = [c \in Callers |-> [st |-> "idle", job |-> 0]]
          /\ DecIdle
          /\ ExIdle
          /\ ScanIdle
          /\ LimIdle
          /\ AtIdle
          /\ FeeIdle
          /\ QcIdle
          /\ TrigIdle
          /\ RotIdle
          /\ SchedIdle
          /\ LogIdle
          /\ TipIdle
          /\ SetupIdle
          /\ BrkIdle
          /\ GateIdle
          /\ OoGateIdle

OcSettled(j) == cJobs[j].st \in {"ok", "failed"}

OcSleepers == {j \in 1..Len(cJobs) : cJobs[j].st = "sleeping" /\ cJobs[j].wake > cNow}

\* The earliest sleep of a run ends.
OcTimerDue ==
    /\ OcSleepers # {}
    /\ \E j \in OcSleepers :
         /\ \A k \in OcSleepers : cJobs[j].wake <= cJobs[k].wake
         /\ cNow' = cJobs[j].wake
    /\ UNCHANGED <<cMinInterval, cTicks, cBan, cLim, cChain, cJobs, cCalls, othersOc>>

\* Time passes while a fetch is under way or the callers wait: half a
\* second, or up to the end of the ban.
OcTick ==
    /\ \/ /\ cTicks < MaxOcTicks
          /\ cNow' = cNow + 500
          /\ cTicks' = cTicks + 1
       \/ /\ cNow < cBan
          /\ cNow' = cBan
          /\ UNCHANGED cTicks
    /\ UNCHANGED <<cMinInterval, cBan, cLim, cChain, cJobs, cCalls, othersOc>>

\* call(fn) by caller c: assertNotBanned, then limiter.schedule.
OcCall(c) ==
    /\ cCalls[c].st = "idle"
    /\ IF assertNotBannedThrows(cNow, cBan)
       THEN /\ cCalls' = [cCalls EXCEPT ![c].st = "threw"]
            /\ UNCHANGED <<cJobs, cChain>>
       ELSE /\ Len(cJobs) < MaxOcCalls
            /\ cJobs' = Append(cJobs, OcJob(c, cChain))
            /\ cChain' = ChainAfter(cChain, Len(cJobs) + 1)
            /\ cCalls' = [cCalls EXCEPT ![c] = [st |-> "awaiting", job |-> Len(cJobs) + 1]]
    /\ UNCHANGED <<cMinInterval, cNow, cTicks, cBan, cLim, othersOc>>

\* The run of call j calls its function: the function throws at
\* assertNotBanned, or makes the fetch.
OcStart(j, lim) ==
    /\ cLim' = lim
    /\ IF scheduledFn(cNow, cBan) = "banned"
       THEN cJobs' = [cJobs EXCEPT ![j].st = "failed", ![j].at = cNow, ![j].err = "banned"]
       ELSE cJobs' = [cJobs EXCEPT ![j].st = "running", ![j].at = cNow, ![j].fetched = TRUE]

\* The chain reaches call j: its run begins, and sleeps or calls the
\* function.
OcJobRun(j) ==
    /\ j \in 1..Len(cJobs)
    /\ cJobs[j].st = "queued"
    /\ IF cJobs[j].after = 0 THEN TRUE ELSE OcSettled(cJobs[j].after)
    /\ LET try == MinIntervalTry(cLim, cMinInterval, cNow)
       IN  IF try.run
           THEN OcStart(j, try.lim)
           ELSE /\ cJobs' = [cJobs EXCEPT ![j].st = "sleeping", ![j].wake = try.wake]
                /\ UNCHANGED cLim
    /\ UNCHANGED <<cMinInterval, cNow, cTicks, cBan, cChain, cCalls, othersOc>>

\* The sleep of run j is over.
OcJobWake(j) ==
    /\ j \in 1..Len(cJobs)
    /\ cJobs[j].st = "sleeping"
    /\ cNow >= cJobs[j].wake
    /\ OcStart(j, [cLim EXCEPT !.lastRunAtMs = cNow])
    /\ UNCHANGED <<cMinInterval, cNow, cTicks, cBan, cChain, cCalls, othersOc>>

\* The fetch of call j settles.
OcFetchSettle(j) ==
    /\ j \in 1..Len(cJobs)
    /\ cJobs[j].st = "running"
    /\ \E outcome \in {"ok"} \cup OcErrors :
         cJobs' = [cJobs EXCEPT ![j].st = (IF outcome = "ok" THEN "ok" ELSE "failed"),
                                ![j].err = (IF outcome = "ok" THEN "none" ELSE outcome)]
    /\ UNCHANGED <<cMinInterval, cNow, cTicks, cBan, cLim, cChain, cCalls, othersOc>>

\* Caller c resumes after its await: the result, or the catch block and the
\* rethrow.
OcResume(c) ==
    /\ cCalls[c].st = "awaiting"
    /\ OcSettled(cCalls[c].job)
    /\ LET job == cJobs[cCalls[c].job]
       IN  IF job.st = "ok"
           THEN /\ cCalls' = [cCalls EXCEPT ![c].st = "returned"]
                /\ UNCHANGED cBan
           ELSE /\ cCalls' = [cCalls EXCEPT ![c].st = "threw"]
                /\ cBan' = bannedAfter(cBan, job.err, cNow)
    /\ UNCHANGED <<cMinInterval, cNow, cTicks, cLim, cChain, cJobs, othersOc>>

\* Caller c is ready for its next call.
OcAgain(c) ==
    /\ cCalls[c].st \in {"returned", "threw"}
    /\ cCalls' = [cCalls EXCEPT ![c] = [st |-> "idle", job |-> 0]]
    /\ UNCHANGED <<cMinInterval, cNow, cTicks, cBan, cLim, cChain, cJobs, othersOc>>

OcNext ==
    \/ OcTimerDue
    \/ OcTick
    \/ \E c \in Callers : OcCall(c)
    \/ \E j \in 1..MaxOcCalls : OcJobRun(j)
    \/ \E j \in 1..MaxOcCalls : OcJobWake(j)
    \/ \E j \in 1..MaxOcCalls : OcFetchSettle(j)
    \/ \E c \in Callers : OcResume(c)
    \/ \E c \in Callers : OcAgain(c)

SpecOc == OcInit /\ [][OcNext]_vars

\* ------------------------------------------------------------------------
\* Properties of the limiters and the retry wrapper (SpecLimiter)
\* ------------------------------------------------------------------------

Begun(j) == lJobs[j].st \in {"sleeping", "running", "ok", "failed"}

\* C5: on one limiter the calls to schedule are served one at a time and in
\* the order they were made: the functions start in the order of the calls
\* to schedule, the run of a call (its wait and its function) does not begin
\* before every call scheduled earlier has settled, and so at most one
\* function is running.
ScheduleFifo ==
    /\ \A i \in 1..Len(lStarted) : \A k \in 1..Len(lStarted) :
         i < k => lStarted[i] < lStarted[k]
    /\ \A j \in 1..Len(lJobs) :
         Begun(j) => \A e \in 1..(j - 1) : Settled(e)
    /\ Cardinality({j \in 1..Len(lJobs) : lJobs[j].st = "running"}) <= 1

\* A call scheduled by one caller waits in the chain while the function of
\* the other caller's earlier call is running.
QueuedBehindRunning ==
    \E j \in 1..Len(lJobs) :
      /\ lJobs[j].st = "queued"
      /\ lJobs[j].after # 0
      /\ lJobs[lJobs[j].after].st = "running"
      /\ lJobs[lJobs[j].after].caller # lJobs[j].caller

AttemptsOf(c) == {j \in 1..Len(lJobs) : lJobs[j].caller = c}

RetrySafe(c) ==
    LET mine == AttemptsOf(c)
        last == lCalls[c].job
    IN /\ Cardinality(mine) <= lCfg.retry.maxAttempts
       /\ lCfg.retry.maxAttempts >= 1
       /\ lCalls[c].st # "idle" => Cardinality(mine) >= 1 /\ last \in mine
       /\ \A j \in mine \ {last} :
            lJobs[j].st = "failed" /\ isRetryableError(lJobs[j].err)
       /\ lCalls[c].st = "returned" => lJobs[last].st = "ok"
       /\ lCalls[c].st = "threw" =>
            /\ lJobs[last].st = "failed"
            /\ lCalls[c].err = lJobs[last].err
            /\ \/ ~isRetryableError(lJobs[last].err)
               \/ Cardinality(mine) = lCfg.retry.maxAttempts

\* C6: a call through the retry wrapper attempts the wrapped function at
\* most maxAttempts times (at least once), each attempt being a call to the
\* limiter's schedule; it returns at the first attempt that succeeds, every
\* attempt before it having failed with a retryable error, or rethrows the
\* error of its last attempt, which is the first non-retryable failure or
\* the attempt number maxAttempts; and every call that is awaiting an
\* attempt settles.
RetryWrapperSettles ==
    /\ [](lCfg.kind = "minInterval" => \A c \in Callers : RetrySafe(c))
    /\ \A c \in Callers :
         (lCfg.kind = "minInterval" /\ lCalls[c].st = "awaiting")
           ~> (lCalls[c].st \in {"returned", "threw"})

\* A call through the wrapper returned at its second attempt.
RetriedThenReturned ==
    \E c \in Callers :
      /\ lCfg.kind = "minInterval"
      /\ lCalls[c].st = "returned"
      /\ lCalls[c].attempt = 1
      /\ Cardinality(AttemptsOf(c)) = 2

\* C7: every note429 leaves currentRps at max(minRps, half of what it was),
\* which is strictly lower than it was as long as it was above minRps, and
\* never below minRps.
Note429LowersRps ==
    [][lLim'.total429 # lLim.total429 =>
         /\ 2 * lLim'.currentRps = Max(2 * lCfg.bucket.minRps, lLim.currentRps)
         /\ lLim'.currentRps >= lCfg.bucket.minRps
         /\ lLim'.currentRps <= lLim.currentRps
         /\ lLim.currentRps > lCfg.bucket.minRps => lLim'.currentRps < lLim.currentRps]_vars

\* Two 429s were noted and the rate has come down to minRps.
RpsAtFloorAfter429s ==
    /\ lCfg.kind = "adaptive"
    /\ lLim.total429 = 2
    /\ lLim.currentRps = lCfg.bucket.minRps
    /\ lLim.currentRps < lCfg.bucket.baseRps

\* ------------------------------------------------------------------------
\* Properties of the decider (SpecDecide)
\* ------------------------------------------------------------------------

\* C2: for non-negative in, out, minOut, fee and minProfit the decision has
\* profitable = TRUE exactly when minOut - in - fee >= minProfit, profit is
\* out - in - fee and conservativeProfit is minOut - in - fee, as exact
\* (possibly negative) integers written in canonical decimal form.
DeciderExact ==
    dPc = "done" =>
        LET in == BigIntOf(dArgs.amountIn)
            out == BigIntOf(dArgs.out)
            minOut == BigIntOf(dArgs.minOut)
            fee == BigIntOf(dArgs.fee)
            minProfit == BigIntOf(dArgs.minProfit)
        IN /\ dRes.profitable <=> (minOut - in - fee >= minProfit)
           /\ BigIntOf(dRes.profit) = out - in - fee
           /\ BigIntOf(dRes.conservativeProfit) = minOut - in - fee
           /\ dRes.profit = ToDecString(out - in - fee)
           /\ dRes.conservativeProfit = ToDecString(minOut - in - fee)

\* A loop decision on the boundary: the conservative profit equals a positive
\* minimum, a fee was charged, and the candidate is accepted.
DeciderBoundaryDecided ==
    /\ dPc = "done"
    /\ ~dArgs.triangular
    /\ BigIntOf(dArgs.fee) > 0
    /\ BigIntOf(dArgs.minProfit) > 0
    /\ BigIntOf(dRes.conservativeProfit) = BigIntOf(dArgs.minProfit)
    /\ BigIntOf(dRes.profit) > BigIntOf(dRes.conservativeProfit)
    /\ dRes.profitable

\* ------------------------------------------------------------------------
\* Properties of the executor (SpecExec)
\* ------------------------------------------------------------------------

OpsOn(tx) == {i \in 1..Len(xNet) : xNet[i].tx = tx}

SendsOf(tx) == {i \in 1..Len(xNet) : xNet[i].tx = tx /\ xNet[i].op \in SendOps}

Logged(ev) == \E i \in 1..Len(xLog) : xLog[i] = ev

\* C1: in live mode, under every trigger strategy, a candidate whose decision
\* is not profitable is never built, signed or sent: no operation reaches the
\* network and the executor ends skipped / not-profitable.
NotProfitableNeverBuilt ==
    (xCfg.mode = "live" /\ xBest # NoValue /\ ~xBest.profitable) =>
        /\ xNet = <<>>
        /\ xSim = {}
        /\ xPc \in {"start", "done"}
        /\ (xPc = "done" => xRes = Skipped("not-profitable") /\ xLog = <<"skip">>)

NotProfitableSkippedLive ==
    /\ xCfg.mode = "live"
    /\ xCfg.dryRunBuild
    /\ xBest # NoValue
    /\ ~xBest.profitable
    /\ xPc = "done"
    /\ xRes = Skipped("not-profitable")

\* The reason a failed live preflight of transaction tx ends with.
PreflightReason(tx) == IF tx = "oo2" THEN "preflight-failed-leg2" ELSE "preflight-failed"

\* C3: in live mode with livePreflightSimulate, a signed transaction whose
\* simulation returned a non-null err is never sent; the preflight is logged
\* and the executor ends skipped, with reason preflight-failed, or
\* preflight-failed-leg2 when the transaction is leg 2 of the Secondary path.
PreflightFailedNeverSent ==
    (xCfg.mode = "live" /\ xCfg.livePreflightSimulate) =>
        \A s \in xSim :
            s[2] # "null" =>
                /\ SendsOf(s[1]) = {}
                /\ xPc = "done"
                /\ xRes = Skipped(PreflightReason(s[1]))
                /\ xLog # <<>>
                /\ xLog[Len(xLog)] = "preflight"

PreflightFailedAtomic ==
    /\ xCfg.mode = "live"
    /\ xCfg.livePreflightSimulate
    /\ <<"atomic", "InstructionError">> \in xSim
    /\ xPc = "done"
    /\ xRes = Skipped("preflight-failed")

\* C3 as stated: the reason is always preflight-failed.
PreflightFailedOneReason ==
    (xCfg.mode = "live" /\ xCfg.livePreflightSimulate) =>
        \A s \in xSim :
            s[2] # "null" =>
                /\ SendsOf(s[1]) = {}
                /\ xPc = "done"
                /\ xRes = Skipped("preflight-failed")

\* C8: on the live atomic bundle path the RPC fallback is taken exactly when
\* fallbackRpc is set, waitMs > 0 and the bundle send raised an error, gave
\* no result before the deadline, or gave a result marked rejected or
\* dropped; otherwise nothing is rebuilt or sent over RPC and the executor
\* only confirms the signature of the transaction it put in the bundle.
FallbackIffBundleFailed ==
    xBundle # NoValue =>
        LET failed == \/ xBundle.error
                      \/ xBundle.result = NoValue
                      \/ xBundle.result.rejected
                      \/ xBundle.result.dropped
            cond == xCfg.jitoFallbackRpc /\ xCfg.jitoWaitMs > 0 /\ failed
            fallback == xPc = "jito-fallback" \/ OpsOn("rebuilt") # {}
        IN /\ xCfg.mode = "live"
           /\ cond <=> fallback
           /\ fallback => xConfirm = "unset"
           /\ ~fallback =>
                /\ xPc \in {"jito-confirm", "done"}
                /\ \A i \in 1..Len(xNet) : xNet[i].op # "rpc-send"
                /\ (xPc = "done" => xConfirm # "unset" /\ xRes = Outcome("executed"))

\* The fallback taken after a rejected bundle.
FallbackAfterRejected ==
    /\ xBundle # NoValue
    /\ ~xBundle.error
    /\ xBundle.result # NoValue
    /\ xBundle.result.rejected
    /\ SendsOf("rebuilt") # {}
    /\ xRes = Outcome("executed")

\* C9: when the confirmation of the transaction submitted in the bundle
\* fails, confirm_error is logged and neither that transaction nor a rebuilt
\* one is sent again: the bundle stays the only submission.
ConfirmErrorNoResend ==
    xConfirm = "failed" =>
        /\ Logged("confirm_error")
        /\ SendsOf("rebuilt") = {}
        /\ OpsOn("rebuilt") = {}
        /\ Cardinality(SendsOf("atomic")) = 1
        /\ \A i \in SendsOf("atomic") : xNet[i].op = "jito-bundle"
        /\ xPc = "done"

ConfirmFailedAfterBundle ==
    /\ xConfirm = "failed"
    /\ xBundle # NoValue
    /\ ~xBundle.error
    /\ xPc = "done"
    /\ xRes = Outcome("executed")

ExecutesOf(tx) == {i \in 1..Len(xNet) : xNet[i] = Op("ultra-execute", tx)}

UltraLegReason(n) == IF n = 1 THEN "ultra-exec-failed-leg1" ELSE "ultra-exec-failed-leg2"

\* C10: in Ultra execution, when the execute response of leg N indicates an
\* error (status containing fail, error, revert or reject; code other than
\* 0; or an error field that is non-empty after trimming whitespace), no
\* execute request is made for a later leg and the result is skipped with
\* reason ultra-exec-failed-legN.
UltraErrorStopsLegs ==
    \A n \in 1..Len(xExec) :
        LET r == xExec[n]
            indicatesError ==
                /\ r # NoValue
                /\ \/ r.status = "Failed"
                   \/ r.code = "nonzero"
                   \/ r.error \notin {"absent", "", " "}
        IN indicatesError =>
            /\ Len(xExec) = n
            /\ (n = 1 => ExecutesOf("u2") = {})
            /\ xPc = "done"
            /\ xRes = Skipped(UltraLegReason(n))

UltraLeg1ErrorStopped ==
    /\ Len(xExec) = 1
    /\ xExec[1] # NoValue
    /\ xExec[1].error = "boom"
    /\ xExec[1].status = "Success"
    /\ xExec[1].code = "zero"
    /\ xRes = Skipped("ultra-exec-failed-leg1")

\* C10 as stated: every non-empty error field counts, a blank one included.
UltraAnyErrorFieldStopsLegs ==
    \A n \in 1..Len(xExec) :
        LET r == xExec[n]
            indicatesError ==
                /\ r # NoValue
                /\ \/ r.status = "Failed"
                   \/ r.code = "nonzero"
                   \/ r.error \notin {"absent", ""}
        IN indicatesError =>
            /\ Len(xExec) = n
            /\ (n = 1 => ExecutesOf("u2") = {})
            /\ xPc = "done"
            /\ xRes = Skipped(UltraLegReason(n))

\* ------------------------------------------------------------------------
\* Properties of the scanner (SpecScan)
\* ------------------------------------------------------------------------

\* C4: once a 429 has opened the breaker of a provider for the pair, no
\* quote request for the pair goes to that provider before open-until has
\* passed: no request leaves while the provider's breaker is open, in the
\* same scan or a later one.
NoQuoteWhileBreakerOpen ==
    \A r \in sReqs : ~r.open

\* The part of C4 that holds: the quotes of the legs respect the breaker.
NoLegQuoteWhileBreakerOpen ==
    \A r \in sReqs : r.kind = "leg" => ~r.open

\* A later scan ended at once by the open breaker.
LaterScanRateLimited ==
    /\ sRes = "rate-limited"
    /\ isOpen(sOpenUntil, "jupiter", sNow)

\* ------------------------------------------------------------------------
\* Properties of the atomic builder (SpecAtomic)
\* ------------------------------------------------------------------------

\* The instructions of items whose key no earlier instruction of items has,
\* in the order of items.
FirstOccurrences(items, Key(_)) ==
    LET keep == {i \in DOMAIN items : \A j \in 1..(i - 1) : Key(items[j]) # Key(items[i])}
    IN [k \in 1..Cardinality(keep) |->
          items[CHOOSE i \in keep : Cardinality({j \in keep : j <= i}) = k]]

TxOf(ixs) == [i \in DOMAIN ixs |-> toTxInstruction(ixs[i])]

Range(seq) == {seq[i] : i \in DOMAIN seq}

\* C11: the instruction list of a built transaction is setComputeUnitLimit,
\* then setComputeUnitPrice if the price is positive (no compute-budget
\* instruction of a leg, at most two in all), then the other instructions
\* of leg 1 only, then the setup group (made of the legs' setup
\* instructions), then the swap of leg 1 and the swap of leg 2, then the
\* cleanup group (made of the legs' cleanup instructions), then the tip
\* transfer, last, if there is a tip.
AtomicInstructionOrder ==
    bOut # NoValue =>
      LET ins == bOut.instructions
          limit == [programId |-> "ComputeBudget", keys |-> <<>>,
                    data |-> "SetComputeUnitLimit", value |-> bIn.computeUnitLimit]
          price == [programId |-> "ComputeBudget", keys |-> <<>>,
                    data |-> "SetComputeUnitPrice", value |-> bIn.computeUnitPriceMicroLamports]
          hasPrice == bIn.computeUnitPriceMicroLamports > 0
          hasTip == bIn.jitoTipLamports > 0 /\ bIn.jitoTipAccount # NoValue
          nBudget == IF hasPrice THEN 2 ELSE 1
          nOther == Len(bIn.i1.otherInstructions)
          nSetup == Len(bOut.setup)
          nCleanup == Len(bOut.cleanup)
          swapAt == nBudget + nOther + nSetup
          legCleanups == {toTxInstruction(c) :
                            c \in {bIn.i1.cleanupInstruction, bIn.i2.cleanupInstruction} \ {NoValue}}
      IN /\ Len(ins) = swapAt + 2 + nCleanup + (IF hasTip THEN 1 ELSE 0)
         /\ ins[1] = limit
         /\ hasPrice => ins[2] = price
         /\ Cardinality({i \in DOMAIN ins : ins[i].programId = "ComputeBudget"}) = nBudget
         /\ SubSeq(ins, nBudget + 1, nBudget + nOther) = TxOf(bIn.i1.otherInstructions)
         /\ \A i \in DOMAIN ins : ins[i].programId = "Memo" => ins[i].data # "bGVnMg=="
         /\ SubSeq(ins, nBudget + nOther + 1, swapAt) = bOut.setup
         /\ Range(bOut.setup) = Range(TxOf(bIn.i1.setupInstructions \o bIn.i2.setupInstructions))
         /\ ins[swapAt + 1] = toTxInstruction(bIn.i1.swapInstruction)
         /\ ins[swapAt + 2] = toTxInstruction(bIn.i2.swapInstruction)
         /\ SubSeq(ins, swapAt + 3, swapAt + 2 + nCleanup) = bOut.cleanup
         /\ Range(bOut.cleanup) = legCleanups
         /\ hasTip =>
              /\ ins[Len(ins)].programId = "System"
              /\ ins[Len(ins)].value = bIn.jitoTipLamports
         /\ Cardinality({i \in DOMAIN ins : ins[i].programId = "System"}) = (IF hasTip THEN 1 ELSE 0)

\* A build with a priority price, other instructions in both legs, budget
\* instructions in the legs, setup and cleanup instructions, and a tip.
AtomicBuiltWithEveryGroup ==
    /\ bOut # NoValue
    /\ bIn.computeUnitPriceMicroLamports > 0
    /\ Len(bIn.i1.otherInstructions) = 1
    /\ Len(bIn.i2.otherInstructions) = 1
    /\ Len(bIn.i1.computeBudgetInstructions) = 1
    /\ Len(bOut.setup) >= 1
    /\ Len(bOut.cleanup) = 2
    /\ bOut.instructions[Len(bOut.instructions)].programId = "System"

\* The key of the code: the accounts in the order the instruction has them.
OrderedKey(ix) == <<ix.programId, ix.data, ix.keys>>

\* The key with the accounts sorted: the accounts as a collection.
SortedKey(ix) == <<ix.programId, ix.data, Range(ix.keys), Len(ix.keys)>>

LegSetups == TxOf(bIn.i1.setupInstructions \o bIn.i2.setupInstructions)

LegCleanups ==
    TxOf(SelectSeq(<<bIn.i1.cleanupInstruction, bIn.i2.cleanupInstruction>>,
                   LAMBDA c : c # NoValue))

\* C12 (as the code has it): within the setup group and within the cleanup
\* group no two instructions have the same key (programId, base64 of the
\* data, accountKey:isSigner:isWritable of the accounts in the order of the
\* instruction), and each group is the first occurrences, by that key, of
\* the legs' instructions in leg order.
GroupsUniqueByOrderedKey ==
    bOut # NoValue =>
      /\ \A i, j \in DOMAIN bOut.setup :
           i # j => OrderedKey(bOut.setup[i]) # OrderedKey(bOut.setup[j])
      /\ \A i, j \in DOMAIN bOut.cleanup :
           i # j => OrderedKey(bOut.cleanup[i]) # OrderedKey(bOut.cleanup[j])
      /\ bOut.setup = FirstOccurrences(LegSetups, OrderedKey)
      /\ bOut.cleanup = FirstOccurrences(LegCleanups, OrderedKey)

\* A build whose legs repeat a setup instruction (once with its data spelt
\* otherwise): the repetition is dropped.
SetupDuplicateDropped ==
    /\ bOut # NoValue
    /\ Len(bOut.setup) = 1
    /\ Len(LegSetups) >= 3
    /\ \E i \in DOMAIN bIn.i2.setupInstructions : bIn.i2.setupInstructions[i].data = "AR=="

\* C12 as stated, with the accounts of the key sorted: no two instructions
\* of a group have the same key.
GroupsUniqueBySortedKey ==
    bOut # NoValue =>
      /\ \A i, j \in DOMAIN bOut.setup :
           i # j => SortedKey(bOut.setup[i]) # SortedKey(bOut.setup[j])
      /\ \A i, j \in DOMAIN bOut.cleanup :
           i # j => SortedKey(bOut.cleanup[i]) # SortedKey(bOut.cleanup[j])

\* ------------------------------------------------------------------------
\* Properties of the fee conversion (SpecFee)
\* ------------------------------------------------------------------------

\* C13: the fee given to a candidate's decision is
\* ceil(feeLamports * outPerSol / 1_000_000_000) for the candidate's own
\* lamport estimate and the out-amount of the reference quote (cached or
\* not) when aMint is not native, and feeLamports when it is.
FeeInAIsOwnEstimateConverted ==
    fUsed # NoValue =>
      IF fCfg.aMintIsSol
      THEN fUsed.feeInA = fUsed.feeLamports
      ELSE LET product == BigIntOf(fUsed.feeLamports) * fUsed.outPerSol
           IN /\ 1000000000 * (BigIntOf(fUsed.feeInA) - 1) < product
              /\ product <= 1000000000 * BigIntOf(fUsed.feeInA)

\* ------------------------------------------------------------------------
\* Properties of the quote cache (SpecQuoteCache)
\* ------------------------------------------------------------------------

InFlightFor(key) == {r \in DOMAIN qReqs : qReqs[r].key = key /\ qReqs[r].st = "flight"}

Issued == Len(qReqs') = Len(qReqs) + 1

\* What the cache does ensure: callers that request the same key (in, out,
\* amount, slippage, sorted include set, sorted exclude set) while the entry
\* of an in-flight request for the key is in the cache and has not expired
\* (ttlMs from when the request was issued) await that request: an upstream
\* quote is issued for a key only when the cache holds no unexpired entry
\* for it, and a caller that issues none awaits the request of the entry.
CoalesceWhileEntryLive ==
    [][/\ Issued =>
            LET key == qReqs'[Len(qReqs')].key
            IN qCache[key] = NoValue \/ qCache[key].expiresAt <= qNow
       /\ \A c \in QuoteCallers :
            (qCalls[c].st = "idle" /\ qCalls'[c].st = "awaiting" /\ ~Issued) =>
              /\ qCache[qReqs[qCalls'[c].req].key] # NoValue
              /\ qCache[qReqs[qCalls'[c].req].key].value = qCalls'[c].req
              /\ qCache[qReqs[qCalls'[c].req].key].expiresAt > qNow]_vars

\* C14 as stated: no second upstream quote is issued for a key while a
\* request for the key is in flight and its entry is in the cache.
OneUpstreamQuotePerKeyInFlight ==
    [][Issued =>
         LET key == qReqs'[Len(qReqs')].key
         IN \A r \in InFlightFor(key) :
              qCache[key] = NoValue \/ qCache[key].value # r]_vars

\* ------------------------------------------------------------------------
\* Properties of the trigger windows (SpecTrigger)
\* ------------------------------------------------------------------------

\* C15: a trailing-stop fire happens only after `lookback` consecutive
\* decline ticks (armed, ppm < peak, peak - ppm >= trailDropPpm); tRun is
\* the number of decline ticks since the last tick that was not one.
TrailingStopAfterConsecutiveDeclines ==
    tRes = "trailing-stop" => tRun >= lookbackOf(tCfg)

\* C16: with emergencySigma > 0, an execute tick whose profitable best
\* candidate has ppm >= EMA + emergencySigma * sigma fires on that tick,
\* armed or not, and so does such an observe tick once samples >= minSamples.
EmergencyFiresWithoutArm ==
    /\ tLast.phase = "execute" /\ tLast.hot => tRes \in Fired
    /\ tLast.phase = "observe" /\ tLast.hot /\ tSamples >= minSamplesOf(tCfg)
         => tRes = "emergency-sigma"

\* C17: while fewer than minSamples observe ticks have yielded a finite
\* signal the window is not in its execute phase and has not fired, and a
\* window that ends in that case ends with insufficient-samples.
InsufficientSamplesSkips ==
    tSignals < minSamplesOf(tCfg) =>
        /\ tPhase # "execute"
        /\ tRes \notin Fired
        /\ tPhase = "done" => tRes = "insufficient-samples"

SkippedWithSomeSamples ==
    /\ tPhase = "done"
    /\ tRes = "insufficient-samples"
    /\ tSignals > 0
    /\ tSignals < minSamplesOf(tCfg)

\* C19: after the stop signal no further scan is started in the window.
NoScanAfterStop == ~tLast.afterStop

\* ------------------------------------------------------------------------
\* Properties of the amount selection (SpecRotate)
\* ------------------------------------------------------------------------
Rotating(cfg) ==
    /\ cfg.triggerAmountMode = "rotate"
    /\ maxAmountsPerTick(cfg) > 0
    /\ maxAmountsPerTick(cfg) < Len(eligibleAmounts(cfg.pair))

\* C18: under rotate every tick quotes k consecutive sizes round-robin from
\* the pair's cursor, which advances by k per tick and carries over from
\* one window of the pair to the next; rLast.from is where that cursor
\* stands when the tick starts.
RotateCursorPersists ==
    (Rotating(rCfg) /\ rLast.ticked) =>
        rLast.picked = PickFrom(eligibleAmounts(rCfg.pair), rLast.from,
                                maxAmountsPerTick(rCfg))

\* ------------------------------------------------------------------------
\* Properties of the scheduler (SpecSched)
\* ------------------------------------------------------------------------
ScansInFlight(name) == {w \in SchedWorkers : mWorkers[w].st = "scan" /\ mWorkers[w].pair = name}

\* C20: at any time at most one scan is in flight for a pair, so no two
\* scans of a pair write its cooldown entry or its scan state concurrently.
OneScanInFlightPerPair == \A name \in PairNames : Cardinality(ScansInFlight(name)) <= 1

\* Two workers scan at once, and a pair is scanned again in a later round.
TwoScansInFlight ==
    /\ \A w \in SchedWorkers : mWorkers[w].st = "scan"
    /\ mNow > 0

Scanning == {w \in SchedWorkers : mWorkers[w].st = "scan"}

\* C21: the number of pair scans running at the same time never exceeds
\* max(1, floor(pairConcurrency)).
ScansWithinPairConcurrency == Cardinality(Scanning) <= Max(1, mCfg.pairConcurrency)

\* One scan runs while another eligible pair waits in the queue.
PairWaitsForWorker ==
    /\ Cardinality(Scanning) = 1
    /\ Len(mQueue) > 0
    /\ Max(1, mCfg.pairConcurrency) = 1

ErrorLimitReached ==
    \/ /\ mCfg.limits.maxErrorsBeforeExit > 0
       /\ mErrors.totalErrors >= mCfg.limits.maxErrorsBeforeExit
    \/ /\ mCfg.limits.maxConsecutiveErrorsBeforeExit > 0
       /\ mErrors.consecutiveErrors >= mCfg.limits.maxConsecutiveErrorsBeforeExit

SchedQuiet == \A w \in SchedWorkers : mWorkers[w].st \in {"none", "threw"}

StopRequested == mStop /\ ~(mPc = "sleep" /\ mWake > MaxSchedClock * SchedTickMs)

NoScanStartsAfterStop == [][mStop => Scanning' \subseteq Scanning]_vars

SecondaryOnlyWhenSequential ==
    /\ \A r \in sReqs : r.provider = "openocean" => sCfg.executionStrategy = "sequential"
    /\ \A i \in DOMAIN xNet :
         xNet[i].tx \in {"oo1", "oo2"} => xCfg.executionStrategy = "sequential"

\* A scan under the atomic strategy, with the Secondary client enabled, that
\* has Primary candidates and is over.
AtomicScanWithSecondaryClient ==
    /\ sCfg # NoValue
    /\ sRes = "scanned"
    /\ sCands > 0
    /\ IF sCfg = NoValue THEN FALSE
       ELSE canUseOpenOceanAnyStrategy(sCfg) /\ sCfg.executionStrategy = "atomic"
\* ------------------------------------------------------------------------
\* Properties of the offloaded decider (SpecDecideFair)
\* ------------------------------------------------------------------------

\* C25: when the external decider is enabled and a request to it fails in
\* any way, the caller still obtains a decision, and it is the decision of
\* the in-process decider for the same inputs.
RustFailureFallsBack ==
    (dFailure # "") ~>
        (/\ dPc = "done"
         /\ dFailure # ""
         /\ dRes = decideInTs(dArgs.amountIn, dArgs.out, dArgs.minOut, dArgs.minProfit, dArgs.fee))
\* ------------------------------------------------------------------------
\* Properties of the logger (SpecLog)
\* ------------------------------------------------------------------------

\* The ids of the lines on disk: the backups from the highest index (oldest)
\* to path.1, then the current file.
RECURSIVE OnDiskFrom(_)
OnDiskFrom(i) ==
    LET here == [k \in 1..Len(gFiles[i].l) |-> gFiles[i].l[k].id]
    IN IF i = 0 THEN here ELSE here \o OnDiskFrom(i - 1)

OnDisk == OnDiskFrom(MaxRotateFiles + 1)

\* The ids of the lines whose write completed, in the order of issue.
LogStream ==
    LET done == SelectSeq(gIssued, LAMBDA w : w.state = "written")
    IN [k \in 1..Len(done) |-> done[k].id]

IsSuffix(s, t) == Len(s) <= Len(t) /\ s = SubSeq(t, Len(t) - Len(s) + 1, Len(t))

\* C26 (as stated): with rotation enabled, the backups read from oldest to
\* newest followed by the current file are the whole stream of log lines in
\* the order the writes were issued.
RotationKeepsWholeStream == rotateEnabled(gCfg) => OnDisk = LogStream

\* C26 (amended): with rotation enabled, the backups read from oldest to
\* newest followed by the current file are the most recent part of the
\* stream of written log lines, in the order the writes were issued, also
\* for writes issued while earlier ones were still running; the rotation
\* that finds maxFiles backups discards the oldest one.
RotationKeepsStreamTail == rotateEnabled(gCfg) => IsSuffix(OnDisk, LogStream)

\* Rotation is enabled, every backup exists, the oldest lines are gone, and
\* two writes are waiting behind one another in the chain.
RotatedWithWritesQueued ==
    /\ rotateEnabled(gCfg)
    /\ \A i \in 0..gCfg.rotateMaxFiles : gFiles[i].e
    /\ Len(OnDisk) < Len(LogStream)
    /\ Len(gChain) >= 2
\* ------------------------------------------------------------------------
\* Properties of the tip (SpecTip)
\* ------------------------------------------------------------------------

\* The dynamic tip of a SOL pair was computed from a positive
\* (minOut - in) * tipBps / 10_000.
DynamicTipComputed ==
    /\ jTip.def
    /\ jCfg.jitoEnabled
    /\ jCfg.jitoTipMode = "dynamic"
    /\ jCfg.aMintIsSol
    /\ (BigIntOf(jCfg.finalMinOut) - BigIntOf(jCfg.amountA)) * jCfg.tipBps > 0

\* C27 (as stated): in dynamic tip mode with native aMint, whenever
\* (minOut - in) * tipBps / 10_000 > 0 the computed tip lies in
\* [minTip, maxTip].
DynamicTipWithinBounds ==
    DynamicTipComputed =>
        (jCfg.minTipLamports <= jTip.v /\ jTip.v <= jCfg.maxTipLamports)

\* C27 (amended): in dynamic tip mode with native aMint, whenever
\* minOut > in and (minOut - in) * tipBps / 10_000 > 0 the computed tip
\* lies in [minTip, maxTip] if minTip <= maxTip and maxTip >= 0, and is
\* max(0, maxTip) otherwise.
DynamicTipWithinBoundsOrCap ==
    (DynamicTipComputed /\ BigIntOf(jCfg.finalMinOut) > BigIntOf(jCfg.amountA)) =>
        IF jCfg.minTipLamports <= jCfg.maxTipLamports /\ jCfg.maxTipLamports >= 0
        THEN jCfg.minTipLamports <= jTip.v /\ jTip.v <= jCfg.maxTipLamports
        ELSE jTip.v = floorAtZero(jCfg.maxTipLamports)

\* A dynamic tip that the lower bound raised, below the cap.
DynamicTipRaisedToMin ==
    /\ DynamicTipComputed
    /\ TruncDiv((BigIntOf(jCfg.finalMinOut) - BigIntOf(jCfg.amountA)) * jCfg.tipBps, BpsUnit) < jCfg.minTipLamports
    /\ jTip.v = jCfg.minTipLamports
    /\ jTip.v < jCfg.maxTipLamports
\* ------------------------------------------------------------------------
\* Properties of setup-wallet (SpecSetup)
\* ------------------------------------------------------------------------

\* Every associated token account of the configured mints existed before.
AllAccountsExisted ==
    \A k \in 1..Len(wMints) : wMints[k] # NativeMint => wMints[k] \in wBefore

\* C28 (as stated): setup-wallet with every associated token account of the
\* configured mints already there sends no transaction and produces no
\* signatures.
SetupSendsNothingWhenAccountsExist ==
    (wPc # "start" /\ AllAccountsExisted) => (wSent = <<>> /\ wSigs = <<>>)

\* C28 (amended): setup-wallet with every associated token account of the
\* configured mints already there creates no account, but it still sends
\* one transaction for every six mints other than the native one and
\* returns their signatures; it sends none only when no such mint is
\* configured.
SetupCreatesNothingWhenAccountsExist ==
    (wPc = "done" /\ AllAccountsExisted) =>
        LET n == Len(setupInstructions(wMints))
        IN /\ wAccounts = wBefore
           /\ Len(wSent) = (n + ChunkSize - 1) \div ChunkSize
           /\ Len(wSigs) = Len(wSent)
           /\ \A k \in 1..Len(wSent) : Len(wSent[k]) <= ChunkSize

\* Setup ended with all accounts there before and two transactions sent.
SetupResentForExistingAccounts ==
    /\ wPc = "done"
    /\ AllAccountsExisted
    /\ Len(wSigs) = 2
\* ------------------------------------------------------------------------
\* Further properties of the executor (SpecExec)
\* ------------------------------------------------------------------------

\* The bundle went to the block engine and nothing says it will not land:
\* no result marked rejected or dropped has come.
BundleMayLand ==
    /\ xBundle # NoValue
    /\ xBundle.sent
    /\ (xBundle.result = NoValue \/ (~xBundle.result.rejected /\ ~xBundle.result.dropped))

\* C29: for one fired candidate on the live atomic path, the rebuilt
\* transaction of the RPC fallback is submitted only when the bundle send
\* raised an error or the bundle's result says rejected or dropped, and it
\* is never submitted while the bundle may still land.
FallbackOnlyAfterKnownFailure ==
    SendsOf("rebuilt") # {} =>
        /\ xBundle # NoValue
        /\ (xBundle.error \/ (xBundle.result # NoValue /\ (xBundle.result.rejected \/ xBundle.result.dropped)))
        /\ ~BundleMayLand
\* The send operations of the candidate so far.
AllSends == {i \in 1..Len(xNet) : xNet[i].op \in SendOps}

\* C30 (as stated): whenever the executor returns skipped with reason
\* preflight-failed or preflight-failed-leg2, no transaction of the
\* candidate has been sent.
PreflightSkipSentNothing ==
    (xPc = "done" /\ xRes \in {Skipped("preflight-failed"), Skipped("preflight-failed-leg2")}) =>
        AllSends = {}

\* C30 (amended): whenever the executor returns skipped with reason
\* preflight-failed, no transaction of the candidate has been sent; when
\* it returns skipped with reason preflight-failed-leg2 (Secondary
\* sequential path), leg 1 has been sent and leg 2 has not.
PreflightSkipSentNothingButLeg1 ==
    /\ (xPc = "done" /\ xRes = Skipped("preflight-failed")) => AllSends = {}
    /\ (xPc = "done" /\ xRes = Skipped("preflight-failed-leg2")) =>
          /\ SendsOf("oo1") # {}
          /\ AllSends = SendsOf("oo1")

\* The Secondary path skipped at the preflight of leg 2, leg 1 sent.
SkippedAtLeg2AfterLeg1Sent ==
    /\ xPc = "done"
    /\ xRes = Skipped("preflight-failed-leg2")
    /\ <<"oo2", "InstructionError">> \in xSim
    /\ SendsOf("oo1") # {}
\* ------------------------------------------------------------------------
\* Properties of the circuit breaker (SpecBreaker)
\* ------------------------------------------------------------------------

\* C31: for every breaker key open-until never decreases under any sequence
\* of open(key, ms) calls, and isOpen(key) returns true exactly while
\* now < open-until.
BreakerForwardOnly ==
    /\ [][\A p \in Providers : kOpenUntil'[p] >= kOpenUntil[p]]_vars
    /\ [](kLast.op = "isOpen" => (kLast.result <=> kLast.at < kLast.until))

\* An open call that would have ended the breaker earlier than the value in
\* force, which stayed.
BreakerKeptLaterUntil ==
    /\ kLast.op = "open"
    /\ kLast.ms > 0
    /\ kLast.at + kLast.ms < kLast.until
    /\ kOpenUntil[kLast.key] = kLast.until

\* ------------------------------------------------------------------------
\* Properties of the token bucket (SpecBucket)
\* ------------------------------------------------------------------------

\* C32: the token bucket's cooldown-until never moves back, whatever
\* cooldown(ms) calls are made, and in every step in which a scheduled
\* function starts the clock has reached the cooldown-until in force.
CooldownForwardOnly ==
    [][/\ lLim'.cooldownUntilMs >= lLim.cooldownUntilMs
       /\ (Len(lStarted') > Len(lStarted) => lNow >= lLim.cooldownUntilMs)]_vars

\* A call whose run found a cooldown in force when its sleep ended, slept
\* again until the extended cooldown-until, and started its function then.
StartedAfterExtendedCooldown ==
    \E j \in 1..Len(lJobs) :
        /\ lJobs[j].st = "running"
        /\ lJobs[j].wake = StartMs + 600
        /\ lJobs[j].at = lJobs[j].wake
        /\ lLim.cooldownUntilMs = lJobs[j].wake

\* The calls whose function started in the closed interval [from, to].
StartedWithin(from, to) ==
    {k \in 1..Len(lJobs) : lJobs[k].st \in {"running", "ok", "failed"}
                           /\ from <= lJobs[k].at /\ lJobs[k].at <= to}

\* C33: the token count stays within [0, burst]; a step in which a scheduled
\* function starts takes exactly one token from the refilled count, and no
\* other step lowers the count; and the functions started in any interval
\* of T seconds number at most burst + baseRps * T.
BucketRateBounded ==
    /\ [](/\ 0 <= lLim.tokens /\ lLim.tokens <= lCfg.bucket.burst * OneToken
          /\ \A i, j \in StartedWithin(StartMs, lNow) :
               lJobs[i].at <= lJobs[j].at =>
                 Cardinality(StartedWithin(lJobs[i].at, lJobs[j].at)) * OneToken
                   <= lCfg.bucket.burst * OneToken
                      + (lJobs[j].at - lJobs[i].at) * lCfg.bucket.baseRps)
    /\ [][/\ (Len(lStarted') > Len(lStarted) =>
                /\ Len(lStarted') = Len(lStarted) + 1
                /\ lLim'.tokens = refill(lLim, lCfg.bucket, lNow).tokens - OneToken)
          /\ (lLim'.tokens < lLim.tokens => Len(lStarted') > Len(lStarted))]_vars

\* A call that found the bucket empty, slept for the missing part of a
\* token with no cooldown in force, and started its function when it woke.
StartedAfterTokenWait ==
    \E j \in 1..Len(lJobs) :
        /\ lJobs[j].st = "running"
        /\ lJobs[j].wake > StartMs
        /\ lJobs[j].at = lJobs[j].wake
        /\ lLim.cooldownUntilMs = 0
        /\ Len(lStarted) = MaxBucketCalls

\* C34: whatever note429(), noteSuccess(), cooldown() and schedule() calls
\* have been made, minRps <= currentRps <= baseRps.
CurrentRpsWithinBounds ==
    /\ lCfg.bucket.minRps <= lLim.currentRps
    /\ lLim.currentRps <= lCfg.bucket.baseRps

\* The rate was halved to its floor by two refusals and has been raised by
\* a success after the penalty, to a value strictly between the bounds.
RpsRecoveredAfterPenalty ==
    /\ lLim.total429 = Max429
    /\ lNow >= lLim.penaltyUntilMs
    /\ lLim.lastRecoveryAtMs = lNow
    /\ lCfg.bucket.minRps < lLim.currentRps
    /\ lLim.currentRps < lCfg.bucket.baseRps

\* ------------------------------------------------------------------------
\* Properties of schedule under fair scheduling (SpecScheduleFair)
\* ------------------------------------------------------------------------

\* The function of call j has started.
FnStarted(j) == j <= Len(lJobs) /\ lJobs[j].st \in {"running", "ok", "failed"}

\* C35: every call handed to schedule eventually starts its function,
\* given that every started function settles and the cooldown is extended
\* only up to the horizon; the calls made behind one whose function
\* rejected are among them, for a started function settles either way.
EveryScheduledCallStarts ==
    \A j \in 1..MaxJobs : (j <= Len(lJobs)) ~> FnStarted(j)

\* The function of a call rejected, and the call chained behind it slept
\* and has started its function.
StartedBehindRejectedCall ==
    \E j \in 2..Len(lJobs) :
        /\ lJobs[j].after = j - 1
        /\ lJobs[j - 1].st = "failed"
        /\ lJobs[j].st = "running"
        /\ lJobs[j].at = lJobs[j].wake
        /\ lJobs[j].at > lJobs[j - 1].at

\* ------------------------------------------------------------------------
\* Further properties of the quote cache (SpecQuoteCache)
\* ------------------------------------------------------------------------

\* C36: a step that removes an entry from the cache is the resumption of
\* the caller whose failed request the entry was created for: the entry of
\* a newer request under the same key is not removed by an older failure.
FailureRemovesOwnEntryOnly ==
    [][\A k \in QuoteKeys :
         (qCache[k] # NoValue /\ qCache'[k] = NoValue) =>
           \E c \in QuoteCallers :
             /\ qCalls[c].st = "awaiting" /\ qCalls'[c].st = "threw"
             /\ qCalls[c].issuer
             /\ qCache[k].value = qCalls[c].req]_vars

\* ------------------------------------------------------------------------
\* Properties of the Secondary gating (SpecGate)
\* ------------------------------------------------------------------------

\* Secondary is set up and switched on for the phase.
GateOn(phase) ==
    /\ oCfg.hasOpenOcean
    /\ IF phase = "observe" THEN oCfg.openOceanObserveEnabled
       ELSE oCfg.openOceanExecuteEnabled

\* C37 as stated: a scan of a window has Secondary enabled only when it is
\* forced or its place among the scans of its phase, counted from 0, is a
\* multiple of N; and every scan made while armed has it enabled.
SecondaryOnEveryNthTick ==
    oLast.phase # "none" =>
      /\ oLast.enabled => (oLast.force \/ oLast.index % openOceanEveryNTicks(oCfg) = 0)
      /\ oLast.force => oLast.enabled

\* C37, amended: a scan of a window has Secondary enabled only when
\* Secondary is set up and switched on for its phase and the scan is forced
\* or its place among the unforced scans of its phase, counted from 0, is a
\* multiple of N; and with Secondary set up and switched on for the phase,
\* every scan made while armed has it enabled.
SecondaryOnEveryNthUnforcedScan ==
    oLast.phase # "none" =>
      /\ oLast.enabled =>
           /\ GateOn(oLast.phase)
           /\ (oLast.force \/ oLast.unforced % openOceanEveryNTicks(oCfg) = 0)
      /\ (oLast.force /\ GateOn(oLast.phase)) => oLast.enabled

\* An unforced scan of the execute phase, made after forced ones, had
\* Secondary enabled at a place among the phase's scans that is not a
\* multiple of N.
EnabledOffTheNthTick ==
    /\ oLast.phase = "execute" /\ ~oLast.force /\ oLast.enabled
    /\ oLast.index > oLast.unforced
    /\ oLast.index % openOceanEveryNTicks(oCfg) # 0

\* ------------------------------------------------------------------------
\* Properties of the Secondary section's gates (SpecOoGate)
\* ------------------------------------------------------------------------

NoFetchWhileBanned ==
    [][/\ cBan' >= cBan
       /\ \A j \in 1..Len(cJobs) :
            (~cJobs[j].fetched /\ cJobs'[j].fetched) => cNow >= cBan]_vars

\* Two calls were queued with no ban recorded; the fetch of the first was
\* refused with status 429 and the ban recorded; the second, its sleep
\* over before the ban's end, threw at assertNotBanned without a fetch.
QueuedCallStoppedByBan ==
    /\ Len(cJobs) = 2
    /\ cJobs[1].err = "HTTP 429" /\ cJobs[2].after = 1
    /\ cJobs[2].st = "failed" /\ cJobs[2].err = "banned" /\ ~cJobs[2].fetched
    /\ cJobs[2].wake > cJobs[1].at
    /\ cJobs[2].at < cBan

\* ------------------------------------------------------------------------
\* Further properties of the scheduler (SpecSched)
\* ------------------------------------------------------------------------

\* C40: in continuous mode, in every step in which a worker starts the scan
\* of a pair, the clock has reached the pair's cooldown entry, which is the
\* instant its last scan ended with a result other than skipped or with an
\* error, plus the pair's cooldownMs > 0.
NoScanWithinCooldown ==
    [][\A w \in SchedWorkers :
         (~mCfg.once /\ mWorkers[w].st # "scan" /\ mWorkers'[w].st = "scan") =>
           mNow >= GetOr0(mCooldowns, mWorkers'[w].pair)]_vars

\* A pair with a cooldown is scanned again, its cooldown over, after
\* rounds that left it out.
ScannedAgainAfterCooldown ==
    \E w \in SchedWorkers :
        /\ ~mCfg.once
        /\ mWorkers[w].st = "scan" /\ mWorkers[w].pair = "A"
        /\ GetOr0(mCooldowns, "A") > 0
        /\ mNow >= GetOr0(mCooldowns, "A")

====
